---- MODULE Spec2Model ----
(***************************************************************************)
(* OKR progress-shift reconciliation (src/goal.py) and alignment-tree      *)
(* construction (src/server.py) as state machines.                         *)
(*                                                                         *)
(* Dates are day numbers of the current year (1 = 1 January; 0 and below   *)
(* are the last days of the previous year).  Every comparison the code     *)
(* makes between a checkin stamp and a reference instant is between a      *)
(* stamp of second resolution and either a midnight (quarter start) or a   *)
(* 23:59:59 (reference day), so it is decided by the two day numbers.      *)
(*                                                                         *)
(* Progress values are decimal numbers of the platform that the code holds *)
(* as Python floats.  Here a platform value is carried in tenths (30.0 is  *)
(* 300), a float is a fraction <<numerator, denominator>> in lowest terms  *)
(* with a mantissa of MantissaBits bits, and + - / round to the nearest    *)
(* such float, ties to even, as IEEE 754 does with 53 bits.                *)
(***************************************************************************)
EXTENDS Integers, Sequences, FiniteSets, TLC

VARIABLES
    today,        \* datetime.now(): day number of the current date
    jan1wd,       \* weekday of 1 January (0 = Monday .. 6 = Sunday)
    leap,         \* whether the current year is a leap year
    goals,        \* platform: cycle/get.full "goals", in page order
    krs,          \* platform: cycle/krs "krs", in page order
    checkins,     \* platform: cycle/checkins "checkins", in page order
    final_df,     \* OKRAnalysisSystem.final_df (rows), <<>> before loading
    weekly,       \* result of calculate_okr_shifts_by_user
    monthly,      \* result of calculate_okr_shifts_by_user_monthly
    pc,           \* position of the report run
    raw_targets,  \* platform: cycle/get.full "targets", as the server reads them
    tree_goals,   \* platform: cycle/get.full "goals", as the server reads them
    tree_krs,     \* platform: cycle/krs "krs", as the server reads them
    tree,         \* the dict _get_tree_logic returns, <<>> before it has run
    tree_pc,      \* position of the tree request
    um_users,     \* UserManager.users (by name), <<>> before the manager exists
    um_pc,        \* position of the UserManager
    risk_call,    \* the arguments of a call of _assess_user_risk, <<>> before
    risk,         \* what that call returned
    user_id_to_name_map,  \* goal.py: the module-level dict, as a sequence of items
    inv,          \* the invocations of get_goal_data: snapshot, position, result
    req,          \* a call of server._make_request: position, attempt, history
    health,       \* a call of _calculate_organization_health: arguments and result
    alerts,       \* what analyze_missing_goals_and_checkins and the alerts hold
    visual        \* what get_okr_tree returned, <<>> before

\* The variables of the report run (goal.py) and of the tree request (server.py)
reportVars == <<today, jan1wd, leap, goals, krs, checkins, final_df, weekly, monthly, pc>>
treeVars == <<raw_targets, tree_goals, tree_krs, tree, tree_pc>>
\* The variables of the user scores and of the risk assessment (goal.py)
scoreVars == <<um_users, um_pc, risk_call, risk>>

\* The variables of the calls that run next to a report (goal.py, server.py)
callVars == <<user_id_to_name_map, inv, req, health, alerts, visual>>

vars == <<reportVars, treeVars, scoreVars, callVars>>

-----------------------------------------------------------------------------
(* Bounds of the model *)

\* Checkins of one snapshot
MaxCheckins == 2

\* Checkins of one snapshot of the ledger runs
MaxLedgerCheckins == 3

\* <<goals, key results>> a snapshot may hold
SnapshotShapes == {<<1, 1>>, <<1, 2>>, <<2, 1>>}

Users == {"u1", "u2"}
GoalNames == {"gA", "gB"}
KrNames == {"kA", "kB"}
\* Platform values of a snapshot, in tenths: 0.0 and 30.0
Values == {0, 300}

\* Mantissa of a float
MantissaBits == 8

\* Decimal values of the rounding runs, in tenths: 0.0 .. 0.3
MaxTenths == 3

-----------------------------------------------------------------------------
(* Float arithmetic *)

Abs(x) == IF x < 0 THEN -x ELSE x

RECURSIVE Gcd(_, _)
Gcd(a, b) == IF b = 0 THEN a ELSE Gcd(b, a % b)

Frac(n, d) == LET g == Gcd(Abs(n), d) IN <<n \div g, d \div g>>

FInt(n) == <<n, 1>>

RECURSIVE Pow2(_)
Pow2(k) == IF k = 0 THEN 1 ELSE 2 * Pow2(k - 1)

\* Mantissas are the integers of [MantissaFloor, MantissaLimit)
MantissaLimit == Pow2(MantissaBits)
MantissaFloor == Pow2(MantissaBits - 1)

RECURSIVE IsPowerOfTwo(_)
IsPowerOfTwo(d) == d = 1 \/ (d % 2 = 0 /\ IsPowerOfTwo(d \div 2))

\* Whether the fraction x (in lowest terms) is a float
IsFloat(x) == Abs(x[1]) < MantissaLimit /\ IsPowerOfTwo(x[2])

\* The integer nearest to n / d for n >= 0, ties to even
RoundHalfEven(n, d) ==
    LET q == n \div d
        r == n % d
    IN  IF 2 * r < d THEN q
        ELSE IF 2 * r > d THEN q + 1
        ELSE IF q % 2 = 0 THEN q ELSE q + 1

\* The float nearest to n / d > 0: the quotient is scaled into
\* [MantissaFloor, MantissaLimit), rounded there, and scaled back
RECURSIVE RoundMagnitude(_, _)
RoundMagnitude(n, d) ==
    IF n < MantissaFloor * d
    THEN LET m == RoundMagnitude(2 * n, d) IN Frac(m[1], 2 * m[2])
    ELSE IF n >= MantissaLimit * d
    THEN LET m == RoundMagnitude(n, 2 * d) IN Frac(2 * m[1], m[2])
    ELSE FInt(RoundHalfEven(n, d))

\* The float nearest to the fraction x
RoundToFloat(x) ==
    IF IsFloat(x) THEN x
    ELSE LET m == RoundMagnitude(Abs(x[1]), x[2])
         IN  IF x[1] < 0 THEN <<-m[1], m[2]>> ELSE m

\* a - b of the rationals
ExactSub(a, b) == Frac(a[1] * b[2] - b[1] * a[2], a[2] * b[2])

FAdd(a, b) == RoundToFloat(Frac(a[1] * b[2] + b[1] * a[2], a[2] * b[2]))

FSub(a, b) == RoundToFloat(ExactSub(a, b))

FDivInt(a, n) == RoundToFloat(Frac(a[1], a[2] * n))

FLess(a, b) == a[1] * b[2] < b[1] * a[2]

\* The float of a platform value given in tenths
ToNumeric(tenths) == RoundToFloat(Frac(tenths, 10))

\* sum(xs): 0 + xs[0] + xs[1] + ..., from the left
RECURSIVE FSum(_)
FSum(s) ==
    IF s = <<>> THEN FInt(0)
    ELSE FAdd(FSum(SubSeq(s, 1, Len(s) - 1)), s[Len(s)])

\* sum(xs) / len(xs) if xs else 0      (also np.mean guarded by a length test)
Mean(s) == IF s = <<>> THEN FInt(0) ELSE FDivInt(FSum(s), Len(s))

-----------------------------------------------------------------------------
(* Calendar: class DateUtils *)

QUARTER_START_MONTHS == {1, 4, 7, 10}

\* calendar.monthrange(year, month)[1]
DaysInMonth(m) == CASE m \in {4, 6, 9, 11} -> 30
                    [] m = 2 -> IF leap THEN 29 ELSE 28
                    [] OTHER -> 31

RECURSIVE DaysBeforeMonth(_)
DaysBeforeMonth(m) == IF m = 1 THEN 0 ELSE DaysBeforeMonth(m - 1) + DaysInMonth(m - 1)

\* datetime(year, month, day) as a day number
DateOf(m, d) == DaysBeforeMonth(m) + d

\* .month of a day number of the current year
MonthOf(day) == CHOOSE m \in 1..12 : DateOf(m, 1) <= day /\ day <= DateOf(m, DaysInMonth(m))

\* .weekday(): 0 = Monday
Weekday(day) == (jan1wd + day - 1) % 7

\* The Friday of the current week
FridayOfCurrentWeek == today - Weekday(today) + 4

get_last_friday_date ==
    LET monday_current_week == today - Weekday(today)
        monday_previous_week == monday_current_week - 7
    IN  monday_previous_week + 4

get_quarter_start_date ==
    LET quarter == ((MonthOf(today) - 1) \div 3) + 1
        quarter_start_month == (quarter - 1) * 3 + 1
    IN  DateOf(quarter_start_month, 1)

get_last_month_end_date == DateOf(MonthOf(today), 1) - 1

\* The while loop of _get_weeks_in_current_month, from current_date on
RECURSIVE WeeksFrom(_, _, _, _)
WeeksFrom(current_date, first_day, last_day, weeks) ==
    IF current_date > last_day THEN weeks
    ELSE LET monday == current_date - Weekday(current_date)
             week_start == IF monday < first_day THEN first_day ELSE monday
             sunday == week_start + 6
             week_end == IF sunday > last_day THEN last_day ELSE sunday
         IN  WeeksFrom(week_end + 1, first_day, last_day,
                       Append(weeks, [week_number |-> Len(weeks) + 1,
                                      start_date |-> week_start,
                                      end_date |-> week_end]))

get_weeks_in_current_month ==
    LET first_day == DateOf(MonthOf(today), 1)
        last_day == DateOf(MonthOf(today), DaysInMonth(MonthOf(today)))
    IN  WeeksFrom(first_day, first_day, last_day, <<>>)

is_week_4_or_5_of_quarter_start_month ==
    IF MonthOf(today) \notin QUARTER_START_MONTHS THEN FALSE
    ELSE LET weeks == get_weeks_in_current_month
             Holds(i) == weeks[i].start_date <= today /\ today <= weeks[i].end_date
         IN  \E i \in 1..Len(weeks) :
                /\ Holds(i)
                /\ \A j \in 1..(i - 1) : ~Holds(j)
                /\ weeks[i].week_number \in {4, 5}

should_calculate_monthly_shift ==
    IF MonthOf(today) \notin QUARTER_START_MONTHS THEN TRUE
    ELSE is_week_4_or_5_of_quarter_start_month

\* okr_report_service.py, DateUtils.should_calculate_monthly_shift
service_should_calculate_monthly_shift == TRUE

is_last_week_of_month ==
    LET weeks == get_weeks_in_current_month
    IN  IF weeks = <<>> THEN FALSE
        ELSE weeks[Len(weeks)].start_date <= today /\ today <= weeks[Len(weeks)].end_date

-----------------------------------------------------------------------------
(* Loading: GoalAPIClient.get_goals_data / get_krs_data,                   *)
(* DataProcessor.extract_checkin_data, load_and_process_data               *)

\* What a missing, empty or zero timestamp converts to (None, then '' and NaT)
NaT == -9999

\* The kr_id of a goal row that matched no key result in the left merge (NaN)
NaN == 0

\* DataProcessor._convert_timestamp_to_datetime followed by pd.to_datetime
convert_timestamp_to_datetime(timestamp) == IF timestamp = 0 THEN NaT ELSE timestamp

\* df[column].fillna(df[other]): the other value where the first is missing
Fillna(value, other) == IF value = NaT THEN other ELSE value

\* One row of goals_df
GoalRow(g) == [goal_id |-> g.id, goal_name |-> g.name,
               goal_since |-> convert_timestamp_to_datetime(g.since),
               goal_current_value |-> g.current_value, goal_user_name |-> g.user_id]

\* extract_checkin_data: one row of checkin_df
CheckinRow(c) == [kr_id |-> c.obj_export_id,
                  checkin_name |-> c.name,
                  checkin_since |-> convert_timestamp_to_datetime(c.since),
                  checkin_kr_current_value |-> c.current_value]

\* The rows a left merge on kr_id gives one merged goal/kr row: one per
\* matching checkin in checkin order, or one row without checkin.
\* clean_final_data turns the missing checkin value into 0 and the missing
\* checkin_since into kr_since.
MergeCheckins(gk, cs) ==
    LET match == SelectSeq(cs, LAMBDA c : c.obj_export_id = gk.kr_id)
        Row(i) == [goal_id |-> gk.goal_id, goal_name |-> gk.goal_name,
                   goal_current_value |-> gk.goal_current_value,
                   goal_user_name |-> gk.goal_user_name,
                   kr_id |-> gk.kr_id, kr_name |-> gk.kr_name,
                   kr_current_value |-> gk.kr_current_value,
                   checkin_name |-> CheckinRow(match[i]).checkin_name,
                   checkin_since |-> CheckinRow(match[i]).checkin_since,
                   checkin_kr_current_value |-> CheckinRow(match[i]).checkin_kr_current_value]
    IN  IF match = <<>>
        THEN <<[goal_id |-> gk.goal_id, goal_name |-> gk.goal_name,
                goal_current_value |-> gk.goal_current_value,
                goal_user_name |-> gk.goal_user_name,
                kr_id |-> gk.kr_id, kr_name |-> gk.kr_name,
                kr_current_value |-> gk.kr_current_value,
                checkin_name |-> "", checkin_since |-> Fillna(NaT, gk.kr_since),
                checkin_kr_current_value |-> 0]>>
        ELSE [i \in 1..Len(match) |-> Row(i)]

\* pd.merge(goals_df, krs_df, on='goal_id', how='left') for one goal: one row
\* per key result of the goal in krs order, or one row with kr_id NaN.
\* clean_final_data turns the missing kr_current_value into 0 and the
\* missing kr_since into goal_since.
MergeKrs(g, ks) ==
    LET match == SelectSeq(ks, LAMBDA k : k.goal_id = g.id)
    IN  IF match = <<>>
        THEN <<GoalRow(g) @@ [kr_id |-> NaN, kr_name |-> "nan", kr_current_value |-> 0,
                              kr_since |-> Fillna(NaT, GoalRow(g).goal_since)]>>
        ELSE [i \in 1..Len(match) |->
                GoalRow(g) @@ [kr_id |-> match[i].id, kr_name |-> match[i].name,
                               kr_current_value |-> match[i].current_value,
                               kr_since |-> Fillna(convert_timestamp_to_datetime(match[i].since),
                                                   GoalRow(g).goal_since)]]

RECURSIVE Concat(_)
Concat(ss) == IF ss = <<>> THEN <<>> ELSE Head(ss) \o Concat(Tail(ss))

\* final_df as load_and_process_data leaves it
BuildFinalDf(gs, ks, cs) ==
    LET merged_df == Concat([i \in 1..Len(gs) |-> MergeKrs(gs[i], ks)])
    IN  Concat([i \in 1..Len(merged_df) |-> MergeCheckins(merged_df[i], cs)])

-----------------------------------------------------------------------------
(* class OKRCalculator *)

\* Series.unique(), dict keys in insertion order: first occurrences, in order
RECURSIVE Unique(_)
Unique(s) ==
    IF s = <<>> THEN <<>>
    ELSE LET rest == Unique(SelectSeq(Tail(s), LAMBDA x : x # Head(s)))
         IN  <<Head(s)>> \o rest

\* rows.sort_values('checkin_since_dt').iloc[-1] of a non-empty frame
\* (the stamps of one key result are distinct, see AddCheckin)
LatestCheckin(rows) ==
    rows[CHOOSE i \in 1..Len(rows) :
            \A j \in 1..Len(rows) : rows[j].checkin_since <= rows[i].checkin_since]

\* checkin_since_dt <= reference_date, false for NaT
OnOrBefore(since, reference_date) == since # NaT /\ since <= reference_date

\* checkin_since_dt >= quarter_start, false for NaT
OnOrAfter(since, quarter_start) == since # NaT /\ since >= quarter_start

\* checkin_name.notna() & (checkin_name != '')
HasCheckinName(r) == r.checkin_name # ""

calculate_current_value(df) ==
    LET names == Unique([i \in 1..Len(df) |-> df[i].goal_name])
        First(n) == df[CHOOSE i \in 1..Len(df) :
                          /\ df[i].goal_name = n
                          /\ \A j \in 1..(i - 1) : df[j].goal_name # n].goal_current_value
    IN  Mean([i \in 1..Len(names) |-> ToNumeric(First(names[i]))])

\* kr_details taking the latest named checkin of each key result, whatever
\* its stamp
ReferenceKrDetailsAnyDate(reference_date, df) ==
    LET with_kr == SelectSeq(df, LAMBDA r : r.kr_id # NaN)
        unique_krs == Unique([i \in 1..Len(with_kr) |-> with_kr[i].kr_id])
        Detail(kr_id) ==
            LET kr_data == SelectSeq(df, LAMBDA r : r.kr_id = kr_id)
                named == SelectSeq(kr_data, LAMBDA r : r.checkin_since # NaT /\ HasCheckinName(r))
            IN  [kr_id |-> kr_id,
                 goal_name |-> kr_data[1].goal_name,
                 kr_value |-> IF named # <<>>
                              THEN LatestCheckin(named).checkin_kr_current_value
                              ELSE 0]
    IN  [i \in 1..Len(unique_krs) |-> Detail(unique_krs[i])]

\* kr_details without the key results that have no checkin at the reference
ReferenceKrDetailsSkipEmpty(reference_date, df) ==
    LET with_kr == SelectSeq(df, LAMBDA r : /\ r.kr_id # NaN
                                            /\ OnOrBefore(r.checkin_since, reference_date)
                                            /\ HasCheckinName(r))
        unique_krs == Unique([i \in 1..Len(with_kr) |-> with_kr[i].kr_id])
        Detail(kr_id) ==
            LET kr_data == SelectSeq(with_kr, LAMBDA r : r.kr_id = kr_id)
            IN  [kr_id |-> kr_id,
                 goal_name |-> kr_data[1].goal_name,
                 kr_value |-> LatestCheckin(kr_data).checkin_kr_current_value]
    IN  [i \in 1..Len(unique_krs) |-> Detail(unique_krs[i])]

\* kr_details of calculate_reference_value: one entry per key result of df
ReferenceKrDetails(reference_date, df) ==
    LET with_kr == SelectSeq(df, LAMBDA r : r.kr_id # NaN)
        unique_krs == Unique([i \in 1..Len(with_kr) |-> with_kr[i].kr_id])
        Detail(kr_id) ==
            LET kr_data == SelectSeq(df, LAMBDA r : r.kr_id = kr_id)
                actual_checkins_before_date ==
                    SelectSeq(kr_data, LAMBDA r : /\ OnOrBefore(r.checkin_since, reference_date)
                                                  /\ HasCheckinName(r))
            IN  [kr_id |-> kr_id,
                 goal_name |-> kr_data[1].goal_name,
                 kr_value |-> IF actual_checkins_before_date # <<>>
                              THEN LatestCheckin(actual_checkins_before_date).checkin_kr_current_value
                              ELSE 0]
    IN  [i \in 1..Len(unique_krs) |-> Detail(unique_krs[i])]

\* The value calculate_reference_value returns with kr_details
ReferenceOfDetails(kr_details) ==
    LET names == Unique([i \in 1..Len(kr_details) |-> kr_details[i].goal_name])
        Vals(n) == LET of == SelectSeq(kr_details, LAMBDA d : d.goal_name = n)
                   IN  [i \in 1..Len(of) |-> ToNumeric(of[i].kr_value)]
    IN  Mean([i \in 1..Len(names) |-> Mean(Vals(names[i]))])

calculate_reference_value(reference_date, df) ==
    ReferenceOfDetails(ReferenceKrDetails(reference_date, df))

\* The latest named checkin at or before the reference, whatever its quarter
KrReferenceValueUnbounded(kr_id, reference_date, df) ==
    LET kr_history == SelectSeq(df, LAMBDA r : r.kr_id = kr_id)
        valid_checkins ==
            SelectSeq(kr_history, LAMBDA r : /\ OnOrBefore(r.checkin_since, reference_date)
                                             /\ HasCheckinName(r))
    IN  IF valid_checkins # <<>>
        THEN LatestCheckin(valid_checkins).checkin_kr_current_value
        ELSE 0

\* The value calculate_kr_shift subtracts from the row's current value
KrReferenceValue(kr_id, reference_date, df) ==
    LET kr_history == SelectSeq(df, LAMBDA r : r.kr_id = kr_id)
        valid_checkins ==
            SelectSeq(kr_history, LAMBDA r : /\ OnOrBefore(r.checkin_since, reference_date)
                                             /\ OnOrAfter(r.checkin_since, get_quarter_start_date)
                                             /\ HasCheckinName(r))
    IN  IF valid_checkins # <<>>
        THEN LatestCheckin(valid_checkins).checkin_kr_current_value
        ELSE 0

calculate_kr_shift(row, reference_date, df) ==
    LET current_val == ToNumeric(row.kr_current_value)
    IN  IF row.kr_id = NaN THEN current_val
        ELSE FSub(current_val, ToNumeric(KrReferenceValue(row.kr_id, reference_date, df)))

-----------------------------------------------------------------------------
(* class OKRAnalysisSystem: shifts *)

\* f"{goal_name}|{kr_name}"
ComboKey(row) == <<row.goal_name, row.kr_name>>

calculate_final_okr_goal_shift(user_df, reference_date, df) ==
    LET keys == Unique([i \in 1..Len(user_df) |-> ComboKey(user_df[i])])
        Shifts(k) == LET rows == SelectSeq(user_df, LAMBDA r : ComboKey(r) = k)
                     IN  [i \in 1..Len(rows) |-> calculate_kr_shift(rows[i], reference_date, df)]
    IN  Mean([i \in 1..Len(keys) |-> Mean(Shifts(keys[i]))])

\* Rule 1 that flags the reference but reports it raw
ReconcileKeepReference(current_value, reference_value, shift) ==
    [shift |-> IF FLess(reference_value, current_value)
               THEN FSub(current_value, reference_value) ELSE shift,
     reference |-> reference_value,
     adjustment_applied |-> FLess(reference_value, current_value)
                            /\ FSub(current_value, reference_value) # shift,
     reference_adjustment_applied |-> FLess(current_value, reference_value)]

\* Rules without rule 2: the aggregate shift is always reported
ReconcileKeepShift(current_value, reference_value, shift) ==
    [shift |-> shift,
     reference |-> IF FLess(current_value, reference_value)
                   THEN FSub(current_value, shift) ELSE reference_value,
     adjustment_applied |-> FALSE,
     reference_adjustment_applied |-> FLess(current_value, reference_value)]

\* Rule 2 taken whenever the reference is below the current value
ReconcileDirectDelta(current_value, reference_value, shift) ==
    [shift |-> IF FLess(reference_value, current_value)
               THEN FSub(current_value, reference_value) ELSE shift,
     reference |-> IF FLess(current_value, reference_value)
                   THEN FSub(current_value, shift) ELSE reference_value,
     adjustment_applied |-> FLess(reference_value, current_value),
     reference_adjustment_applied |-> FLess(current_value, reference_value)]

\* Rules 1 and 2 on (current, reference, shift), shared by both periods
Reconcile(current_value, reference_value, shift) ==
    IF FLess(current_value, reference_value)
    THEN [shift |-> shift,
          reference |-> FSub(current_value, shift),
          adjustment_applied |-> FALSE,
          reference_adjustment_applied |-> TRUE]
    ELSE IF FLess(reference_value, current_value)
            /\ FSub(current_value, reference_value) # shift
    THEN [shift |-> FSub(current_value, reference_value),
          reference |-> reference_value,
          adjustment_applied |-> TRUE,
          reference_adjustment_applied |-> FALSE]
    ELSE [shift |-> shift,
          reference |-> reference_value,
          adjustment_applied |-> FALSE,
          reference_adjustment_applied |-> FALSE]

calculate_weekly_shift_data(user_df, user_name, reference_friday, df) ==
    LET final_okr_goal_shift == calculate_final_okr_goal_shift(user_df, reference_friday, df)
        current_value == calculate_current_value(user_df)
        kr_details == ReferenceKrDetails(reference_friday, user_df)
        reference_value == ReferenceOfDetails(kr_details)
        adj == Reconcile(current_value, reference_value, final_okr_goal_shift)
    IN  [user_name |-> user_name,
         okr_shift |-> adj.shift,
         original_shift |-> final_okr_goal_shift,
         current_value |-> current_value,
         reference_value |-> adj.reference,
         original_reference_value |-> reference_value,
         legacy_okr_shift |-> FSub(current_value, reference_value),
         adjustment_applied |-> adj.adjustment_applied,
         reference_adjustment_applied |-> adj.reference_adjustment_applied,
         kr_details_count |-> Len(kr_details),
         reference_date |-> reference_friday]

\* The monthly rules applied in every week of the month
MonthlyRulesOnly(current_value, reference_value, shift) ==
    Reconcile(current_value, reference_value, shift)

\* The adjustment of the monthly period: the reset to 0 in week 4 or 5 of a
\* quarter-start month, the rules otherwise
MonthlyAdjustment(current_value, reference_value, shift) ==
    IF is_week_4_or_5_of_quarter_start_month
    THEN [shift |-> current_value,
          reference |-> FInt(0),
          adjustment_applied |-> TRUE,
          reference_adjustment_applied |-> TRUE]
    ELSE Reconcile(current_value, reference_value, shift)

calculate_monthly_shift_data(user_df, user_name, reference_month_end, df) ==
    LET final_okr_goal_shift_monthly ==
            calculate_final_okr_goal_shift(user_df, reference_month_end, df)
        current_value == calculate_current_value(user_df)
        kr_details == ReferenceKrDetails(reference_month_end, user_df)
        reference_value == ReferenceOfDetails(kr_details)
        adj == MonthlyAdjustment(current_value, reference_value,
                                 final_okr_goal_shift_monthly)
    IN  [user_name |-> user_name,
         okr_shift |-> adj.shift,
         original_shift |-> final_okr_goal_shift_monthly,
         current_value |-> current_value,
         reference_value |-> adj.reference,
         original_reference_value |-> reference_value,
         legacy_okr_shift |-> IF is_week_4_or_5_of_quarter_start_month
                              THEN current_value
                              ELSE FSub(current_value, reference_value),
         adjustment_applied |-> adj.adjustment_applied,
         reference_adjustment_applied |-> adj.reference_adjustment_applied,
         kr_details_count |-> Len(kr_details),
         reference_date |-> reference_month_end]

\* sorted(user_okr_shifts, key=shift, reverse=True): stable, descending
RECURSIVE SortedByShiftDesc(_)
SortedByShiftDesc(s) ==
    IF s = <<>> THEN <<>>
    ELSE LET i == CHOOSE i \in 1..Len(s) :
                    /\ \A j \in 1..Len(s) : ~FLess(s[i].okr_shift, s[j].okr_shift)
                    /\ \A j \in 1..(i - 1) : FLess(s[j].okr_shift, s[i].okr_shift)
             rest == [j \in 1..(Len(s) - 1) |-> IF j < i THEN s[j] ELSE s[j + 1]]
         IN  <<s[i]>> \o SortedByShiftDesc(rest)

calculate_okr_shifts_by_period(period, df) ==
    LET users == Unique([i \in 1..Len(df) |-> df[i].goal_user_name])
        reference_date == IF period = "weekly" THEN get_last_friday_date
                          ELSE get_last_month_end_date
        UserDf(u) == SelectSeq(df, LAMBDA r : r.goal_user_name = u)
        ShiftData(u) == IF period = "weekly"
                        THEN calculate_weekly_shift_data(UserDf(u), u, reference_date, df)
                        ELSE calculate_monthly_shift_data(UserDf(u), u, reference_date, df)
    IN  SortedByShiftDesc([i \in 1..Len(users) |-> ShiftData(users[i])])

calculate_okr_shifts_by_user(df) == calculate_okr_shifts_by_period("weekly", df)

calculate_okr_shifts_by_user_monthly(df) ==
    IF ~should_calculate_monthly_shift THEN <<>>
    ELSE calculate_okr_shifts_by_period("monthly", df)

-----------------------------------------------------------------------------
(* class User, class UserManager: scores are carried in hundredths, the   *)
(* monthly shifts handed to the manager in thousandths                     *)

\* movement_scores; the threshold of the last row is float('inf')
movement_scores ==
    <<[inf |-> FALSE, threshold |-> 1000, points |-> 15],
      [inf |-> FALSE, threshold |-> 2500, points |-> 25],
      [inf |-> FALSE, threshold |-> 3000, points |-> 50],
      [inf |-> FALSE, threshold |-> 5000, points |-> 75],
      [inf |-> FALSE, threshold |-> 8000, points |-> 125],
      [inf |-> FALSE, threshold |-> 9900, points |-> 150],
      [inf |-> TRUE, threshold |-> 0, points |-> 250]>>

\* A lookup that takes the first row with movement <= threshold
RECURSIVE MovementPointsInclusive(_, _)
MovementPointsInclusive(movement, rows) ==
    IF rows = <<>> THEN 0
    ELSE IF Head(rows).inf \/ movement <= Head(rows).threshold THEN Head(rows).points
    ELSE MovementPointsInclusive(movement, Tail(rows))

\* A lookup that adds the points of every row with movement < threshold
RECURSIVE MovementPointsCumulative(_, _)
MovementPointsCumulative(movement, rows) ==
    IF rows = <<>> THEN 0
    ELSE (IF Head(rows).inf \/ movement < Head(rows).threshold THEN Head(rows).points ELSE 0)
         + MovementPointsCumulative(movement, Tail(rows))

\* for threshold, points in movement_scores: if movement < threshold: ... break
RECURSIVE MovementPoints(_, _)
MovementPoints(movement, rows) ==
    IF rows = <<>> THEN 0
    ELSE IF Head(rows).inf \/ movement < Head(rows).threshold THEN Head(rows).points
    ELSE MovementPoints(movement, Tail(rows))

\* User.calculate_score; every term is a multiple of 0.01 and the sum is
\* below 10, so round(score, 2) of the float sum is the decimal sum
calculate_score(user) ==
    [user EXCEPT !.score = 50 + (IF user.checkin = 1 THEN 50 ELSE 0)
                              + (IF user.co_OKR = 1 THEN 100 ELSE 0)
                              + MovementPoints(user.dich_chuyen_OKR, movement_scores)]

\* UserManager._create_users: one User per account member
create_users(users_with_okr_names) ==
    [name \in Users |-> [co_OKR |-> IF name \in users_with_okr_names THEN 1 ELSE 0,
                         checkin |-> 0, dich_chuyen_OKR |-> 0, score |-> 0]]

\* strftime('%Y-%m') of a stamp equals that of now
InCurrentMonth(since) ==
    since >= 1 /\ since <= DateOf(12, 31) /\ MonthOf(since) = MonthOf(today)

\* A criterion that counts only the rows that carry a checkin
MeetsCriteriaOnCheckins(user_name, df) ==
    Len(SelectSeq(df, LAMBDA r : /\ r.goal_user_name = user_name
                                 /\ r.checkin_name # ""
                                 /\ r.checkin_since # NaT
                                 /\ InCurrentMonth(r.checkin_since))) > 3

\* _get_monthly_weekly_criteria_details(...)['meets_criteria']: more than 3
\* rows of the user whose checkin_since is of the current month
MeetsCriteria(user_name, df) ==
    Len(SelectSeq(df, LAMBDA r : /\ r.goal_user_name = user_name
                                 /\ r.checkin_since # NaT
                                 /\ InCurrentMonth(r.checkin_since))) > 3

\* UserManager.update_checkins
update_checkins(us, df) ==
    [name \in DOMAIN us |->
        [us[name] EXCEPT !.checkin = IF MeetsCriteria(name, df) THEN 1 ELSE 0]]

\* round(shift, 2) of a shift in thousandths (no shift of the model is a tie)
Round2(thousandths) == (thousandths + 5) \div 10

\* UserManager.update_okr_movement; monthly_okr_data maps user names to shifts
update_okr_movement(us, monthly_okr_data) ==
    [name \in DOMAIN us |->
        [us[name] EXCEPT !.dich_chuyen_OKR =
            IF name \in DOMAIN monthly_okr_data THEN Round2(monthly_okr_data[name]) ELSE 0]]

\* A calculate_scores that leaves checkin alone outside the last week
calculate_scores_keeping(us, df) ==
    [name \in DOMAIN us |->
        calculate_score([us[name] EXCEPT !.checkin =
            IF is_last_week_of_month
            THEN (IF MeetsCriteria(name, df) THEN 1 ELSE 0)
            ELSE @])]

\* UserManager.calculate_scores
calculate_scores(us, df) ==
    [name \in DOMAIN us |->
        calculate_score([us[name] EXCEPT !.checkin =
            IF is_last_week_of_month /\ MeetsCriteria(name, df) THEN 1 ELSE 0])]

\* dict.get(key, default)
Get(d, key, default) == IF key \in DOMAIN d THEN d[key] ELSE default

RiskLevel(risk_score) ==
    IF risk_score >= 60 THEN "Cao" ELSE IF risk_score >= 30 THEN "Trung binh" ELSE "Thap"

\* An assessment in which only the first penalty that fires counts
AssessFirstPenalty(shift_data, period_checkin, overall_checkin) ==
    LET risk_factors ==
            IF Get(shift_data, "okr_shift", 0) < 0 THEN <<"Tien do OKR am">>
            ELSE IF Get(period_checkin, "checkin_count_period", 0) < 2
                 THEN <<"It check-in trong ky">>
            ELSE IF Get(overall_checkin, "checkin_frequency_per_week", 0) < 10
                 THEN <<"Tan suat check-in thap">>
            ELSE IF Get(shift_data, "kr_details_count", 0) = 0
                 THEN <<"Khong co KR hoat dong">>
            ELSE <<>>
        risk_score ==
            IF risk_factors = <<>> THEN 0
            ELSE IF risk_factors[1] = "Tien do OKR am" THEN 30
            ELSE IF risk_factors[1] = "Tan suat check-in thap" THEN 20
            ELSE 25
    IN  [risk_score |-> risk_score, risk_level |-> RiskLevel(risk_score),
         risk_factors |-> risk_factors]

\* OKRAnalysisSystem._assess_user_risk; okr_shift and
\* checkin_frequency_per_week are in tenths
assess_user_risk(shift_data, period_checkin, overall_checkin) ==
    LET negative == Get(shift_data, "okr_shift", 0) < 0
        few == Get(period_checkin, "checkin_count_period", 0) < 2
        seldom == Get(overall_checkin, "checkin_frequency_per_week", 0) < 10
        no_kr == Get(shift_data, "kr_details_count", 0) = 0
        risk_score == (IF negative THEN 30 ELSE 0) + (IF few THEN 25 ELSE 0)
                      + (IF seldom THEN 20 ELSE 0) + (IF no_kr THEN 25 ELSE 0)
        risk_factors == (IF negative THEN <<"Tien do OKR am">> ELSE <<>>)
                        \o (IF few THEN <<"It check-in trong ky">> ELSE <<>>)
                        \o (IF seldom THEN <<"Tan suat check-in thap">> ELSE <<>>)
                        \o (IF no_kr THEN <<"Khong co KR hoat dong">> ELSE <<>>)
    IN  [risk_score |-> risk_score, risk_level |-> RiskLevel(risk_score),
         risk_factors |-> risk_factors]

-----------------------------------------------------------------------------
(* goal.py: the module-level user mapping and get_goal_data *)

\* load_user_mapping: the dict built from the user list of the Account
\* response; the dict is left as it is when the list is empty or the
\* request fails (an empty list stands for both)
load_user_mapping(user_list, old_map) ==
    IF user_list = <<>> THEN old_map
    ELSE SelectSeq(user_list, LAMBDA user : user.id # "" /\ user.name # "")

\* get_goal_data: for uid, name in user_id_to_name_map.items():
\*                    if name == employee_name: employee_user_id = uid; break
FindEmployeeUserId(mapping, employee_name) ==
    LET hits == SelectSeq(mapping, LAMBDA item : item.name = employee_name)
    IN  IF hits = <<>> THEN "<null>" ELSE hits[1].id

-----------------------------------------------------------------------------
(* server.py: _make_request *)

max_retries == 3
backoff_factor == 1

\* The exceptions of requests.exceptions.RequestException that a POST or
\* raise_for_status raises
RequestExceptions == {"HTTPError", "ConnectionError", "Timeout"}

\* A wait that grows by one second per attempt
WaitTimeLinear(attempt) == backoff_factor * (attempt + 1)

\* wait_time = backoff_factor * (2 ** attempt)
WaitTime(attempt) == backoff_factor * (2 ^ attempt)

-----------------------------------------------------------------------------
(* server.py: the alignment tree *)

\* Identifiers and names of the tree requests, in the order of Python's
\* string comparison
CompanyIdSeq == <<"c1", "c2">>
CompanyNameSeq == <<"cA", "cB">>
TreeGoalIdSeq == <<"g1", "g2">>
TreeKrIdSeq == <<"k1", "k2">>

\* Two entries of each mapping (names in ASCII)
DEPT_ID_MAPPING == ("450" :> "BP Thi Truong") @@ ("451" :> "BP Cung Ung")
TEAM_ID_MAPPING == ("307" :> "Doi Ban hang") @@ ("547" :> "Doi Nguon Nhan Luc")

\* f"Team {g_team_id}" and f"Dept {g_dept_id}" for the unmapped ids of the model
TeamLabel(team_id) == IF team_id = "999" THEN "Team 999" ELSE "Team"
DeptLabel(dept_id) == IF dept_id = "999" THEN "Dept 999" ELSE "Dept"

\* d[k] = v on a dict d (a function; the empty dict is <<>>)
DictSet(d, k, v) == [x \in DOMAIN d \cup {k} |-> IF x = k THEN v ELSE d[x]]

\* The index of the last occurrence of the key k in the sequence of keys
LastIndex(keys, k) ==
    CHOOSE i \in 1..Len(keys) : keys[i] = k /\ \A j \in (i + 1)..Len(keys) : keys[j] # k

\* The element of s that the last assignment to the key k leaves in a dict
LastWithId(s, k) == s[LastIndex([i \in 1..Len(s) |-> s[i].id], k)]

\* company_targets_map: id -> id and name of the targets of scope company
CompanyTargetsMap(targets) ==
    LET companies == SelectSeq(targets, LAMBDA t : t.scope = "company")
    IN  [id \in {companies[i].id : i \in 1..Len(companies)} |->
            LET t == LastWithId(companies, id)
            IN  [id |-> t.id, name |-> t.name]]

\* The rows one raw target adds to collected_targets; list_goal_id is what
\* get_target_sub_goal_ids answers for the row's target_id
CollectedOf(t, company_targets_map) ==
    IF t.scope \in {"dept", "team"} /\ t.parent_id \in DOMAIN company_targets_map
    THEN <<[target_id |-> t.id,
            target_company_id |-> company_targets_map[t.parent_id].id,
            target_company_name |-> company_targets_map[t.parent_id].name,
            target_name |-> t.name, target_scope |-> t.scope,
            team_id |-> t.team_id, dept_id |-> t.dept_id,
            list_goal_id |-> t.sub_goal_ids]>>
    ELSE IF t.scope = "company"
    THEN [i \in 1..Len(t.cached_objs) |->
            [target_id |-> t.cached_objs[i].id,
             target_company_id |-> t.id,
             target_company_name |-> t.name,
             target_name |-> t.cached_objs[i].name,
             target_scope |-> t.cached_objs[i].scope,
             team_id |-> t.cached_objs[i].team_id,
             dept_id |-> t.cached_objs[i].dept_id,
             list_goal_id |-> t.cached_objs[i].sub_goal_ids]]
    ELSE <<>>

\* The rows of the DataFrame parse_targets_logic returns
parse_targets_logic(targets) ==
    LET company_targets_map == CompanyTargetsMap(targets)
    IN  Concat([i \in 1..Len(targets) |-> CollectedOf(targets[i], company_targets_map)])

\* A JSON null of the platform, and what str() makes of a value
None == "<null>"
Str(v) == IF v = None THEN "None" ELSE v

\* goals_by_target.get(dt_id, []): the goals with tid = str(target_id)
\* not empty and not "0", filed under tid = dt_id
GoalsByTarget(gs, dt_id) ==
    SelectSeq(gs, LAMBDA g : Str(g.target_id) \notin {"", "0"} /\ Str(g.target_id) = dt_id)

\* personal_goals: the goals whose tid is empty or "0"
PersonalGoals(gs) == SelectSeq(gs, LAMBDA g : Str(g.target_id) \in {"", "0"})

\* krs_dict of the goal g_id
KrsDict(g_id, ks) ==
    LET g_krs == SelectSeq(ks, LAMBDA k : k.goal_id # "" /\ k.goal_id = g_id)
    IN  [k_id \in {g_krs[i].id : i \in 1..Len(g_krs)} |->
            [name |-> LastWithId(g_krs, k_id).name]]

\* A goals_dict that leaves out the goals without key results
GoalsDictWithKrs(some_goals, ks) ==
    LET kept == SelectSeq(some_goals, LAMBDA g : DOMAIN KrsDict(g.id, ks) # {})
    IN  [g_id \in {kept[i].id : i \in 1..Len(kept)} |->
            [name |-> LastWithId(kept, g_id).name, krs |-> KrsDict(g_id, ks)]]

\* goals_dict (or personal_groups[group_name]) of a list of goals
GoalsDict(some_goals, ks) ==
    [g_id \in {some_goals[i].id : i \in 1..Len(some_goals)} |->
        [name |-> LastWithId(some_goals, g_id).name,
         krs |-> KrsDict(g_id, ks)]]

\* mapped_context_name of a row
MappedContextName(row) ==
    IF row.target_scope = "dept" /\ row.dept_id # ""
    THEN IF row.dept_id \in DOMAIN DEPT_ID_MAPPING THEN DEPT_ID_MAPPING[row.dept_id] ELSE ""
    ELSE IF row.target_scope = "team" /\ row.team_id # ""
    THEN IF row.team_id \in DOMAIN TEAM_ID_MAPPING THEN TEAM_ID_MAPPING[row.team_id] ELSE ""
    ELSE ""

\* dept_team_targets of one company group: scope -> target name -> node,
\* for the rows of the group that have goals
DeptTeamTargets(group, gs, ks) ==
    LET active == SelectSeq(group, LAMBDA row : GoalsByTarget(gs, row.target_id) # <<>>)
        Node(row) == [name |-> row.target_name,
                      mapped_name |-> MappedContextName(row),
                      goals |-> GoalsDict(GoalsByTarget(gs, row.target_id), ks)]
        OfScope(dt_scope) == SelectSeq(active, LAMBDA row : row.target_scope = dt_scope)
    IN  [dt_scope \in {active[i].target_scope : i \in 1..Len(active)} |->
            [dt_name \in {OfScope(dt_scope)[i].target_name : i \in 1..Len(OfScope(dt_scope))} |->
                Node(OfScope(dt_scope)[LastIndex(
                    [i \in 1..Len(OfScope(dt_scope)) |-> OfScope(dt_scope)[i].target_name],
                    dt_name)])]]

\* The (target_company_id, target_company_name) pairs in sorted order
CompanyKeySeq ==
    [n \in 1..(Len(CompanyIdSeq) * Len(CompanyNameSeq)) |->
        <<CompanyIdSeq[((n - 1) \div Len(CompanyNameSeq)) + 1],
          CompanyNameSeq[((n - 1) % Len(CompanyNameSeq)) + 1]>>]

\* group_name of a personal goal
GroupName(g) ==
    IF g.team_id \notin {"", "0"}
    THEN IF g.team_id \in DOMAIN TEAM_ID_MAPPING
         THEN TEAM_ID_MAPPING[g.team_id] ELSE TeamLabel(g.team_id)
    ELSE IF g.dept_id \notin {"", "0"}
    THEN IF g.dept_id \in DOMAIN DEPT_ID_MAPPING
         THEN DEPT_ID_MAPPING[g.dept_id] ELSE DeptLabel(g.dept_id)
    ELSE "Unknown Group"

\* personal_groups: group name -> goals of the group
PersonalGroups(gs, ks) ==
    LET personal_goals == PersonalGoals(gs)
    IN  [group_name \in {GroupName(personal_goals[i]) : i \in 1..Len(personal_goals)} |->
            GoalsDict(SelectSeq(personal_goals, LAMBDA g : GroupName(g) = group_name), ks)]

\* The tree _get_tree_logic builds from the rows of targets_df (not empty),
\* the goals and the key results
get_tree_logic(targets_df, gs, ks) ==
    LET GroupOf(key) ==
            SelectSeq(targets_df, LAMBDA row : /\ row.target_company_id = key[1]
                                              /\ row.target_company_name = key[2])
        CoName(key) == IF key[2] = "" THEN "Unknown Company Target" ELSE key[2]
        active == SelectSeq(CompanyKeySeq,
                            LAMBDA key : /\ GroupOf(key) # <<>>
                                         /\ DOMAIN DeptTeamTargets(GroupOf(key), gs, ks) # {})
        companies ==
            [co_name \in {CoName(active[i]) : i \in 1..Len(active)} |->
                [name |-> co_name,
                 type |-> "company",
                 target_dept_or_team |->
                     DeptTeamTargets(
                         GroupOf(active[LastIndex([i \in 1..Len(active) |-> CoName(active[i])],
                                                  co_name)]),
                         gs, ks)]]
        personal_groups == PersonalGroups(gs, ks)
    IN  IF DOMAIN personal_groups = {}
        THEN companies
        ELSE DictSet(companies, "PERSONAL",
                     [name |-> "Muc tieu ca nhan", type |-> "personal",
                      groups |-> personal_groups])

-----------------------------------------------------------------------------
(* server.py: the display tree *)

\* The keys of a dict as a list (the children of a node follow this order)
RECURSIVE KeyList(_)
KeyList(keys) ==
    IF keys = {} THEN <<>>
    ELSE LET k == CHOOSE x \in keys : TRUE
         IN  <<k>> \o KeyList(keys \ {k})

\* The node of one goal: its label and one child per key result
GoalNode(g_data) ==
    [label |-> <<"goal", g_data.name>>,
     children |-> [i \in 1..Len(KeyList(DOMAIN g_data.krs)) |->
                     [label |-> <<"kr", g_data.krs[KeyList(DOMAIN g_data.krs)[i]].name>>]]]

\* The nodes of the goals of a goals dict
GoalNodes(goals_dict) ==
    [i \in 1..Len(KeyList(DOMAIN goals_dict)) |-> GoalNode(goals_dict[KeyList(DOMAIN goals_dict)[i]])]

\* The node of one target
TargetNode(t_data) ==
    [label |-> <<"target", t_data.mapped_name, t_data.name>>,
     children |-> GoalNodes(t_data.goals)]

\* The nodes of the targets of one scope: a target whose mapped_name is
\* empty is passed over
TargetNodes(targets) ==
    LET all == [i \in 1..Len(KeyList(DOMAIN targets)) |-> targets[KeyList(DOMAIN targets)[i]]]
        kept == SelectSeq(all, LAMBDA t_data : t_data.mapped_name # "")
    IN  [i \in 1..Len(kept) |-> TargetNode(kept[i])]

\* co_node of a company entry
CompanyNode(node_data) ==
    LET dept_team_targets == node_data.target_dept_or_team
        scopes == KeyList(DOMAIN dept_team_targets)
    IN  [label |-> <<"company", node_data.name>>,
         children |-> Concat([i \in 1..Len(scopes) |-> TargetNodes(dept_team_targets[scopes[i]])])]

\* p_node of the personal entry
PersonalNode(node_data) ==
    LET group_names == KeyList(DOMAIN node_data.groups)
    IN  [label |-> <<"personal", node_data.name>>,
         children |-> [i \in 1..Len(group_names) |->
                         [label |-> <<"group", group_names[i]>>,
                          children |-> GoalNodes(node_data.groups[group_names[i]])]]]

\* _convert_to_visual_nodes: the company entries, then PERSONAL
convert_to_visual_nodes(tree_data) ==
    LET keys == KeyList(DOMAIN tree_data \ {"PERSONAL"})
                    \o (IF "PERSONAL" \in DOMAIN tree_data THEN <<"PERSONAL">> ELSE <<>>)
        Node(top_key) == IF tree_data[top_key].type = "company"
                         THEN CompanyNode(tree_data[top_key])
                         ELSE PersonalNode(tree_data[top_key])
    IN  [label |-> "ROOT", children |-> [i \in 1..Len(keys) |-> Node(keys[i])]]

-----------------------------------------------------------------------------
(* The report run over one snapshot of the platform *)

\* Names matter to the code only through equality, so a record may reuse a
\* name already present or take the first name not yet present.
NextNames(names, used) ==
    {names[i] : i \in 1..(IF used < Len(names) THEN used + 1 ELSE Len(names))}

UserSeq == <<"u1", "u2">>
GoalNameSeq == <<"gA", "gB">>
KrNameSeq == <<"kA", "kB">>

GoalIds == {shape[1] : shape \in SnapshotShapes}
KrIds == {shape[2] : shape \in SnapshotShapes}

\* Stamps a checkin can carry. A reference can pick the checkin of a stamp
\* in ReferenceStamps, so these come with every value; no reference picks
\* a checkin of today or one without stamp (0), and the one of the eve of
\* the quarter start is always the earliest, so one value does for these.
ReferenceStamps == {get_quarter_start_date, get_last_month_end_date, get_last_friday_date}
OtherStamps == {0, get_quarter_start_date - 1, today}

\* The days a report run is modelled on: one of the fourth week of a
\* quarter-start month, and one of the month after it
ReportDays == {DateOf(4, 23), DateOf(5, 20)}

\* round(num / den, digits) as an integer multiple of 10^-digits, for a
\* quotient that is no tie (scale = 10^digits)
RoundQuotient(num, den, scale) == (2 * num * scale + den) \div (2 * den)

\* analyze_checkin_behavior: total_weeks, from the earliest checkin_since of
\* final_df to now (stamps are taken at the start of their day)
TotalWeeks(df) ==
    LET start_dates == {df[i].checkin_since : i \in 1..Len(df)} \ {NaT}
    IN  IF start_dates = {} THEN 12
        ELSE LET min_date == CHOOSE d \in start_dates : \A e \in start_dates : d <= e
                 weeks == (today - min_date) \div 7
             IN  IF weeks < 1 THEN 1 ELSE weeks

\* The named checkin rows of a user (group of final_df by goal_user_name)
NamedCheckinsOf(user_name, df) ==
    SelectSeq(df, LAMBDA r : r.goal_user_name = user_name /\ HasCheckinName(r))

\* The users of final_df in the order groupby gives them
GroupedUsers(df) ==
    SelectSeq(UserSeq, LAMBDA u : \E i \in 1..Len(df) : df[i].goal_user_name = u)

\* analyze_checkin_behavior: period_checkins; the rate is in hundredths
PeriodCheckins(df) ==
    LET grouped == GroupedUsers(df)
    IN  [i \in 1..Len(grouped) |->
            [user_name |-> grouped[i],
             checkin_count_period |-> Len(NamedCheckinsOf(grouped[i], df)),
             checkin_rate_period |->
                 RoundQuotient(Len(NamedCheckinsOf(grouped[i], df)), TotalWeeks(df), 100),
             total_weeks |-> TotalWeeks(df)]]

\* strftime('%Y-%U'): the week of the year, weeks starting on Sunday
WeekOfYear(day) == (day - 1 + 7 - ((Weekday(day) + 1) % 7)) \div 7

\* analyze_checkin_behavior: overall_checkins; the frequency is in hundredths
OverallCheckins(df) ==
    LET grouped == GroupedUsers(df)
        Entry(user_name) ==
            LET named == NamedCheckinsOf(user_name, df)
                dated == SelectSeq(named, LAMBDA r : r.checkin_since # NaT)
            IN  IF named = <<>>
                THEN [user_name |-> user_name, total_checkins |-> 0,
                      weeks_with_checkin |-> 0, checkin_frequency_per_week |-> 0,
                      last_week_checkins |-> 0]
                ELSE [user_name |-> user_name,
                      total_checkins |-> Len(named),
                      weeks_with_checkin |->
                          Cardinality({WeekOfYear(dated[i].checkin_since) : i \in 1..Len(dated)}),
                      checkin_frequency_per_week |->
                          RoundQuotient(Len(named), TotalWeeks(df), 100),
                      last_week_checkins |->
                          Len(SelectSeq(dated, LAMBDA r : r.checkin_since >= today - 7))]
    IN  [i \in 1..Len(grouped) |-> Entry(grouped[i])]

\* round(share * 100, 1) in tenths, of the entries that pass among all
HealthScore(passing, total) == RoundQuotient(passing * 100, total, 10)

\* Scores that take a list without entries for a full success
HealthMetricsOptimistic(weekly_shifts, period_checkins) ==
    [okr_health_score |->
        IF weekly_shifts = <<>> THEN 1000
        ELSE HealthScore(Len(SelectSeq(weekly_shifts,
                                 LAMBDA u : FLess(FInt(0), u.okr_shift))),
                         Len(weekly_shifts)),
     checkin_health_score |->
        IF period_checkins = <<>> THEN 1000
        ELSE HealthScore(Len(SelectSeq(period_checkins,
                                 LAMBDA u : u.checkin_count_period > 0)),
                         Len(period_checkins))]

\* _calculate_organization_health: okr_health_score and
\* checkin_health_score, in tenths
HealthMetrics(weekly_shifts, period_checkins) ==
    [okr_health_score |->
        IF weekly_shifts = <<>> THEN 0
        ELSE HealthScore(Len(SelectSeq(weekly_shifts,
                                 LAMBDA u : FLess(FInt(0), u.okr_shift))),
                         Len(weekly_shifts)),
     checkin_health_score |->
        IF period_checkins = <<>> THEN 0
        ELSE HealthScore(Len(SelectSeq(period_checkins,
                                 LAMBDA u : u.checkin_count_period > 0)),
                         Len(period_checkins))]

\* round((okr_health_score + checkin_health_score) / 2, 1) in tenths: when
\* the sum of the two scores is odd the quotient lies next to a decimal tie
\* and round() gives either neighbour, by the error of the binary float
OverallHealthScores(metrics) ==
    LET sum == metrics.okr_health_score + metrics.checkin_health_score
    IN  IF sum % 2 = 0 THEN {sum \div 2} ELSE {sum \div 2, sum \div 2 + 1}

\* goal_user_id of a row of final_df (the users of the model are named by
\* their id)
GoalUserId(row) == row.goal_user_name

\* A variant that lists under no_checkins only the users that have goals
AnalyzeMissingAmongGoalOwners(df, account_users) ==
    LET users_with_checkins_ids ==
            {GoalUserId(df[i]) : i \in {j \in 1..Len(df) : HasCheckinName(df[j])}}
        users_with_goals_ids == {GoalUserId(df[i]) : i \in 1..Len(df)}
        missing == SelectSeq(account_users,
                             LAMBDA user : /\ user.id \notin users_with_checkins_ids
                                           /\ user.id \in users_with_goals_ids)
    IN  [no_goals |-> SelectSeq(account_users, LAMBDA user : user.id \notin users_with_goals_ids),
         no_checkins |-> missing,
         goals_no_checkins |-> missing]

\* analyze_missing_goals_and_checkins over final_df and the account users
analyze_missing_goals_and_checkins(df, account_users) ==
    LET users_with_checkins_ids ==
            {GoalUserId(df[i]) : i \in {j \in 1..Len(df) : HasCheckinName(df[j])}}
        users_with_goals_ids == {GoalUserId(df[i]) : i \in 1..Len(df)}
        no_checkins == SelectSeq(account_users,
                                 LAMBDA user : user.id \notin users_with_checkins_ids)
    IN  [no_goals |-> SelectSeq(account_users, LAMBDA user : user.id \notin users_with_goals_ids),
         no_checkins |-> no_checkins,
         goals_no_checkins |-> SelectSeq(no_checkins,
                                         LAMBDA user : user.id \in users_with_goals_ids)]

\* _generate_alerts_and_warnings; a message is told by its kind and the name
generate_alerts_and_warnings(no_goals, no_checkins, goals_no_checkins, weekly_shifts, period_checkins) ==
    LET UserAlert(type, priority, user) ==
            [type |-> type, user |-> user.name, username |-> user.username,
             message |-> <<type, user.name>>, priority |-> priority]
        low_performers == SelectSeq(weekly_shifts, LAMBDA u : FLess(u.okr_shift, FInt(0)))
        infrequent_checkins == SelectSeq(period_checkins, LAMBDA u : u.checkin_count_period < 2)
    IN  [critical_issues |->
             [i \in 1..Len(no_goals) |-> UserAlert("NO_GOALS", "HIGH", no_goals[i])]
             \o [i \in 1..Len(no_checkins) |-> UserAlert("NO_CHECKINS", "HIGH", no_checkins[i])],
         moderate_issues |->
             [i \in 1..Len(goals_no_checkins) |->
                 UserAlert("GOALS_NO_CHECKINS", "MEDIUM", goals_no_checkins[i])]
             \o [i \in 1..Len(low_performers) |->
                    [type |-> "LOW_PERFORMANCE", user |-> low_performers[i].user_name,
                     shift |-> low_performers[i].okr_shift,
                     message |-> <<"LOW_PERFORMANCE", low_performers[i].user_name>>,
                     priority |-> "MEDIUM"]],
         improvement_opportunities |->
             [i \in 1..Len(infrequent_checkins) |->
                 [type |-> "INFREQUENT_CHECKINS", user |-> infrequent_checkins[i].user_name,
                  checkin_count |-> infrequent_checkins[i].checkin_count_period,
                  message |-> <<"INFREQUENT_CHECKINS", infrequent_checkins[i].user_name>>,
                  priority |-> "LOW"]]]

\* No tree is requested in the runs of the report
NoTreeRequest ==
    /\ raw_targets = <<>>
    /\ tree_goals = <<>>
    /\ tree_krs = <<>>
    /\ tree = <<>>
    /\ tree_pc = "idle"

\* No UserManager exists and no risk was assessed
NoScoring ==
    /\ um_users = <<>>
    /\ um_pc = "none"
    /\ risk_call = <<>>
    /\ risk = <<>>

\* No get_goal_data runs and no request is made
NoCalls ==
    /\ user_id_to_name_map = <<>>
    /\ inv = <<>>
    /\ req = <<>>
    /\ health = <<>>
    /\ alerts = <<>>
    /\ visual = <<>>

Init ==
    /\ leap = FALSE
    /\ jan1wd = 2
    /\ today \in ReportDays
    /\ goals = <<>>
    /\ krs = <<>>
    /\ checkins = <<>>
    /\ final_df = <<>>
    /\ weekly = <<>>
    /\ monthly = <<>>
    /\ pc = "fetch"
    /\ NoTreeRequest
    /\ NoScoring
    /\ NoCalls

FitsShape(n_goals, n_krs) ==
    \E shape \in SnapshotShapes : n_goals <= shape[1] /\ n_krs <= shape[2]

AddGoal(user_id, name, current_value) ==
    /\ pc = "fetch"
    /\ FitsShape(Len(goals) + 1, Len(krs))
    /\ user_id \in NextNames(UserSeq, Cardinality({goals[i].user_id : i \in 1..Len(goals)}))
    /\ name \in NextNames(GoalNameSeq, Cardinality({goals[i].name : i \in 1..Len(goals)}))
    /\ goals' = Append(goals, [id |-> Len(goals) + 1, name |-> name, since |-> 0,
                               current_value |-> current_value, user_id |-> user_id])
    /\ UNCHANGED <<callVars, treeVars, scoreVars, today, jan1wd, leap, krs, checkins, final_df, weekly, monthly, pc>>

\* Key results are listed goal by goal, each under a goal of the cycle;
\* since is the stamp of the key result, 0 when the platform gives none.
AddKRSince(goal_id, name, current_value, since) ==
    /\ pc = "fetch"
    /\ FitsShape(Len(goals), Len(krs) + 1)
    /\ goal_id \in 1..Len(goals)
    /\ krs # <<>> => krs[Len(krs)].goal_id <= goal_id
    /\ name \in NextNames(KrNameSeq, Cardinality({krs[i].name : i \in 1..Len(krs)}))
    /\ krs' = Append(krs, [id |-> Len(krs) + 1, name |-> name, since |-> since,
                           current_value |-> current_value, goal_id |-> goal_id])
    /\ UNCHANGED <<callVars, treeVars, scoreVars, today, jan1wd, leap, goals, checkins, final_df, weekly, monthly, pc>>

\* A key result without stamp
AddKR(goal_id, name, current_value) == AddKRSince(goal_id, name, current_value, 0)

\* The platform lists the checkins of a cycle by key result and stamp; two
\* checkins of one key result never carry the same stamp.
AddCheckin(kr_id, since, current_value, name) ==
    /\ pc = "fetch"
    /\ kr_id \in 1..Len(krs)
    /\ checkins # <<>> =>
          LET last == checkins[Len(checkins)]
          IN  \/ last.obj_export_id < kr_id
              \/ last.obj_export_id = kr_id /\ last.since < since
    /\ checkins' = Append(checkins, [obj_export_id |-> kr_id, since |-> since,
                                     current_value |-> current_value, name |-> name])
    /\ UNCHANGED <<callVars, treeVars, scoreVars, today, jan1wd, leap, goals, krs, final_df, weekly, monthly, pc>>

\* load_and_process_data: pd.merge raises KeyError when a frame was built
\* from an empty list (it has no key column), and the run ends there;
\* else it leaves final_df and a UserManager
LoadAndProcessData ==
    /\ pc = "fetch"
    /\ IF goals = <<>> \/ krs = <<>> \/ checkins = <<>>
       THEN /\ pc' = "failed"
            /\ UNCHANGED <<final_df, um_users, um_pc>>
       ELSE /\ pc' = "loaded"
            /\ final_df' = BuildFinalDf(goals, krs, checkins)
            /\ um_users' = create_users({goals[i].user_id : i \in 1..Len(goals)})
            /\ um_pc' = "created"
    /\ UNCHANGED <<callVars, treeVars, risk_call, risk, today, jan1wd, leap, goals, krs, checkins, weekly, monthly>>

CalculateWeekly ==
    /\ pc = "loaded"
    /\ weekly' = calculate_okr_shifts_by_user(final_df)
    /\ pc' = "weekly"
    /\ UNCHANGED <<callVars, treeVars, scoreVars, today, jan1wd, leap, goals, krs, checkins, final_df, monthly>>

CalculateMonthly ==
    /\ pc = "weekly"
    /\ monthly' = calculate_okr_shifts_by_user_monthly(final_df)
    /\ pc' = "done"
    /\ UNCHANGED <<callVars, treeVars, scoreVars, today, jan1wd, leap, goals, krs, checkins, final_df, weekly>>

Next ==
    \/ \E u \in Users, n \in GoalNames, v \in Values : AddGoal(u, n, v)
    \/ \E g \in GoalIds, n \in KrNames, v \in Values : AddKR(g, n, v)
    \/ \E k \in KrIds, d \in ReferenceStamps, v \in Values :
          Len(checkins) < MaxCheckins /\ AddCheckin(k, d, v, "ck")
    \/ \E k \in KrIds, d \in OtherStamps :
          Len(checkins) < MaxCheckins /\ AddCheckin(k, d, 300, "ck")
    \/ \E k \in KrIds :
          Len(checkins) < MaxCheckins /\ AddCheckin(k, get_quarter_start_date, 300, "")
    \/ LoadAndProcessData
    \/ CalculateWeekly
    \/ CalculateMonthly

Spec == Init /\ [][Next]_vars

\* Runs on one goal with one key result and one checkin at the quarter
\* start, whose three values are decimals that are not floats
DecimalValues == 0..MaxTenths

NextFloat ==
    \/ \E v \in DecimalValues : goals = <<>> /\ AddGoal("u1", "gA", v)
    \/ \E v \in DecimalValues : krs = <<>> /\ AddKR(1, "kA", v)
    \/ \E v \in DecimalValues :
          checkins = <<>> /\ AddCheckin(1, get_quarter_start_date, v, "ck")
    \/ LoadAndProcessData
    \/ CalculateWeekly
    \/ CalculateMonthly

SpecFloat == Init /\ [][NextFloat]_vars

\* Runs of 31 January on one goal whose key result kA (current value 70.0)
\* has a history of checkins of 10.0, 40.0 and 70.0 around the quarter start
\* (1 January) and the last Friday (24 January), next to a key result kB
LedgerStamps == {-1, DateOf(1, 1), DateOf(1, 15), DateOf(1, 24), DateOf(1, 31)}
LedgerValues == {100, 400, 700}

InitLedger ==
    /\ leap = FALSE
    /\ jan1wd = 2
    /\ today = DateOf(1, 31)
    /\ goals = <<>>
    /\ krs = <<>>
    /\ checkins = <<>>
    /\ final_df = <<>>
    /\ weekly = <<>>
    /\ monthly = <<>>
    /\ pc = "fetch"
    /\ NoTreeRequest
    /\ NoScoring
    /\ NoCalls

NextLedger ==
    \/ goals = <<>> /\ AddGoal("u1", "gA", 700)
    \/ krs = <<>> /\ AddKR(1, "kA", 700)
    \/ Len(krs) = 1 /\ AddKR(1, "kB", 400)
    \/ \E d \in LedgerStamps, v \in LedgerValues :
          Len(checkins) < MaxLedgerCheckins /\ AddCheckin(1, d, v, "ck")
    \/ Len(checkins) < MaxLedgerCheckins /\ AddCheckin(1, DateOf(1, 24), 700, "")
    \/ \E d \in {DateOf(1, 15), DateOf(1, 24)} :
          Len(checkins) < MaxLedgerCheckins /\ AddCheckin(2, d, 100, "ck")
    \/ LoadAndProcessData
    \/ CalculateWeekly
    \/ CalculateMonthly

SpecLedger == InitLedger /\ [][NextLedger]_vars

\* The requests for the alignment tree: at most so many company targets,
\* dept/team targets (listed or cached), goals and key results
TreeShapes == {<<2, 2, 1, 1>>, <<1, 1, 2, 2>>}

CompanyTargets == SelectSeq(raw_targets, LAMBDA t : t.scope = "company")
SubTargets == SelectSeq(raw_targets, LAMBDA t : t.scope # "company")
CachedObjs == Concat([i \in 1..Len(CompanyTargets) |-> CompanyTargets[i].cached_objs])

FitsTreeShape(n_companies, n_subs, n_goals, n_krs) ==
    \E shape \in TreeShapes : /\ n_companies <= shape[1] /\ n_subs <= shape[2]
                               /\ n_goals <= shape[3] /\ n_krs <= shape[4]

\* A dept/team target as the platform describes it; the first one is "t1"
\* named "dA" of scope dept, and a target id has one membership list
SubTarget(id, name, scope, sub_goal_ids) ==
    [id |-> id, name |-> name, scope |-> scope,
     team_id |-> IF scope = "team" THEN "307" ELSE "",
     dept_id |-> IF scope = "dept" THEN "450" ELSE "",
     sub_goal_ids |-> sub_goal_ids]

CanAddSubTarget(id, name, scope, sub_goal_ids) ==
    LET known == SubTargets \o CachedObjs
    IN  /\ tree_pc = "idle"
        /\ FitsTreeShape(Len(CompanyTargets), Len(known) + 1, Len(tree_goals), Len(tree_krs))
        /\ known = <<>> => id = "t1" /\ name = "dA" /\ scope = "dept"
        /\ \A i \in 1..Len(known) : known[i].id = id => known[i].sub_goal_ids = sub_goal_ids

\* The cycle has a company target (the first is "c1" named "cA")
AddCompanyTarget(name) ==
    /\ tree_pc = "idle"
    /\ SubTargets = <<>>
    /\ FitsTreeShape(Len(CompanyTargets) + 1, 0, Len(tree_goals), Len(tree_krs))
    /\ CompanyTargets = <<>> => name = "cA"
    /\ raw_targets' = Append(raw_targets,
           [id |-> CompanyIdSeq[Len(CompanyTargets) + 1], name |-> name,
            scope |-> "company", parent_id |-> "", team_id |-> "", dept_id |-> "",
            sub_goal_ids |-> <<>>, cached_objs |-> <<>>])
    /\ UNCHANGED <<callVars, reportVars, scoreVars, tree_goals, tree_krs, tree, tree_pc>>

\* The cycle lists a dept/team target (of a new id) whose parent_id is parent_id
AddSubTarget(id, name, scope, parent_id, sub_goal_ids) ==
    /\ CanAddSubTarget(id, name, scope, sub_goal_ids)
    /\ \A i \in 1..Len(SubTargets) : SubTargets[i].id # id
    /\ raw_targets' = Append(raw_targets,
           SubTarget(id, name, scope, sub_goal_ids) @@
           [parent_id |-> parent_id, cached_objs |-> <<>>])
    /\ UNCHANGED <<callVars, reportVars, scoreVars, tree_goals, tree_krs, tree, tree_pc>>

\* The company target "c1" names a dept/team target (once) in its cached_objs
AddCachedObj(id, name, scope, sub_goal_ids) ==
    /\ CanAddSubTarget(id, name, scope, sub_goal_ids)
    /\ CompanyTargets # <<>>
    /\ \A i \in 1..Len(CachedObjs) : CachedObjs[i].id # id
    /\ raw_targets' = [i \in 1..Len(raw_targets) |->
           IF raw_targets[i].id = "c1"
           THEN [raw_targets[i] EXCEPT !.cached_objs =
                    Append(@, SubTarget(id, name, scope, sub_goal_ids))]
           ELSE raw_targets[i]]
    /\ UNCHANGED <<callVars, reportVars, scoreVars, tree_goals, tree_krs, tree, tree_pc>>

\* The cycle has a goal (team_id and dept_id vary on the goals with no target_id)
AddTreeGoal(target_id, team_id, dept_id) ==
    /\ tree_pc = "idle"
    /\ FitsTreeShape(Len(CompanyTargets), Len(SubTargets \o CachedObjs),
                     Len(tree_goals) + 1, Len(tree_krs))
    /\ target_id # "" => team_id = "" /\ dept_id = ""
    /\ tree_goals' = Append(tree_goals,
           [id |-> TreeGoalIdSeq[Len(tree_goals) + 1], name |-> "goal",
            target_id |-> target_id, team_id |-> team_id, dept_id |-> dept_id])
    /\ UNCHANGED <<callVars, reportVars, scoreVars, raw_targets, tree_krs, tree, tree_pc>>

\* The cycle has a key result of the goal goal_id
AddTreeKR(goal_id) ==
    /\ tree_pc = "idle"
    /\ FitsTreeShape(Len(CompanyTargets), Len(SubTargets \o CachedObjs),
                     Len(tree_goals), Len(tree_krs) + 1)
    /\ tree_krs' = Append(tree_krs,
           [id |-> TreeKrIdSeq[Len(tree_krs) + 1], name |-> "kr", goal_id |-> goal_id])
    /\ UNCHANGED <<callVars, reportVars, scoreVars, raw_targets, tree_goals, tree, tree_pc>>

\* _get_tree_logic: a ToolError when no target is found, else the tree
GetTree ==
    /\ tree_pc = "idle"
    /\ LET targets_df == parse_targets_logic(raw_targets)
       IN  IF targets_df = <<>>
           THEN tree_pc' = "error" /\ tree' = tree
           ELSE tree_pc' = "built" /\ tree' = get_tree_logic(targets_df, tree_goals, tree_krs)
    /\ UNCHANGED <<callVars, reportVars, scoreVars, raw_targets, tree_goals, tree_krs>>

InitTree ==
    /\ leap = FALSE
    /\ jan1wd = 2
    /\ today = DateOf(4, 23)
    /\ goals = <<>>
    /\ krs = <<>>
    /\ checkins = <<>>
    /\ final_df = <<>>
    /\ weekly = <<>>
    /\ monthly = <<>>
    /\ pc = "fetch"
    /\ NoTreeRequest
    /\ NoScoring
    /\ NoCalls

NextTree ==
    \/ \E name \in {"cA", "cB"} : AddCompanyTarget(name)
    \/ \E id \in {"t1", "t2"}, name \in {"dA", "dB"}, scope \in {"dept", "team"},
          parent_id \in {"c1", "c2"}, sub_goal_ids \in {<<>>, <<"g1">>} :
          AddSubTarget(id, name, scope, parent_id, sub_goal_ids)
    \/ \E id \in {"t1", "t2"}, name \in {"dA", "dB"}, scope \in {"dept", "team"},
          sub_goal_ids \in {<<>>, <<"g1">>} :
          AddCachedObj(id, name, scope, sub_goal_ids)
    \/ \E target_id \in {"", "0", None, "t1", "t2", "t9"}, team_id \in {"", "307", "999"},
          dept_id \in {"", "450"} : AddTreeGoal(target_id, team_id, dept_id)
    \/ \E goal_id \in {"g1", "g2"} : AddTreeKR(goal_id)
    \/ GetTree

SpecTree == InitTree /\ [][NextTree]_vars

\* Scores: user u1 has one goal with the key result kA, which carries the
\* checkins, and at most a second key result kB without checkin; u2 is an
\* account member without goal.  The runs are of a day outside the last
\* week of April and of one inside it.
MaxScoreCheckins == 4
ScoreDays == {DateOf(4, 23), DateOf(4, 29)}
ScoreStamps == {DateOf(3, 31), DateOf(4, 1), DateOf(4, 8), DateOf(4, 15), DateOf(4, 22)}
KrStamps == {0, DateOf(4, 2)}
MovementShifts == {-5000, 9994, 9996, 24900, 24996, 25000, 29990, 30000, 49990, 50000,
                   79990, 80000, 98990, 99000, 120000}

UpdateCheckins ==
    /\ um_pc = "created"
    /\ um_users' = update_checkins(um_users, final_df)
    /\ um_pc' = "checked"
    /\ UNCHANGED <<callVars, reportVars, treeVars, risk_call, risk>>

UpdateOkrMovement(monthly_okr_data) ==
    /\ um_pc \in {"created", "checked"}
    /\ um_users' = update_okr_movement(um_users, monthly_okr_data)
    /\ um_pc' = "moved"
    /\ UNCHANGED <<callVars, reportVars, treeVars, risk_call, risk>>

CalculateScores ==
    /\ um_pc = "moved"
    /\ um_users' = calculate_scores(um_users, final_df)
    /\ um_pc' = "scored"
    /\ UNCHANGED <<callVars, reportVars, treeVars, risk_call, risk>>

InitScore ==
    /\ leap = FALSE
    /\ jan1wd = 2
    /\ today \in ScoreDays
    /\ goals = <<>>
    /\ krs = <<>>
    /\ checkins = <<>>
    /\ final_df = <<>>
    /\ weekly = <<>>
    /\ monthly = <<>>
    /\ pc = "fetch"
    /\ NoTreeRequest
    /\ NoScoring
    /\ NoCalls

NextScore ==
    \/ goals = <<>> /\ AddGoal("u1", "gA", 300)
    \/ krs = <<>> /\ AddKR(1, "kA", 300)
    \/ \E since \in KrStamps : Len(krs) = 1 /\ AddKRSince(1, "kB", 300, since)
    \/ \E d \in ScoreStamps :
          Len(checkins) < MaxScoreCheckins /\ AddCheckin(1, d, 300, "ck")
    \/ LoadAndProcessData
    \/ UpdateCheckins
    \/ UpdateOkrMovement(<<>>)
    \/ \E shift \in MovementShifts : UpdateOkrMovement("u1" :> shift)
    \/ CalculateScores

SpecScore == InitScore /\ [][NextScore]_vars

\* Risk assessments: shifts and frequencies in tenths; a dict without the
\* key is the one of a user who is missing from the checkin analysis
RiskShifts == {-50, -1, 0, 50}
RiskKrCounts == {0, 2}
RiskPeriodCheckins == {[user_name |-> "u1"]}
    \cup {[user_name |-> "u1", checkin_count_period |-> c] : c \in 0..3}
RiskOverallCheckins == {[user_name |-> "u1"]}
    \cup {[user_name |-> "u1", checkin_frequency_per_week |-> f] : f \in {0, 5, 10, 20}}

AssessUserRisk(shift_data, period_checkin, overall_checkin) ==
    /\ risk_call = <<>>
    /\ risk_call' = <<shift_data, period_checkin, overall_checkin>>
    /\ risk' = assess_user_risk(shift_data, period_checkin, overall_checkin)
    /\ UNCHANGED <<callVars, reportVars, treeVars, um_users, um_pc>>

NextRisk ==
    \E okr_shift \in RiskShifts, kr_details_count \in RiskKrCounts,
       period_checkin \in RiskPeriodCheckins, overall_checkin \in RiskOverallCheckins :
        AssessUserRisk([user_name |-> "u1", okr_shift |-> okr_shift,
                        kr_details_count |-> kr_details_count],
                       period_checkin, overall_checkin)

SpecRisk == InitTree /\ [][NextRisk]_vars

\* Calendar: the report run over one goal with one key result and one
\* checkin, on every day of a year of either length that starts on any weekday
CalendarStamps == {today - 12, today - 1} \ {d \in {today - 12, today - 1} : d < 1}

InitCalendar ==
    /\ leap \in BOOLEAN
    /\ jan1wd \in 0..6
    /\ today \in 1..(IF leap THEN 366 ELSE 365)
    /\ goals = <<>>
    /\ krs = <<>>
    /\ checkins = <<>>
    /\ final_df = <<>>
    /\ weekly = <<>>
    /\ monthly = <<>>
    /\ pc = "fetch"
    /\ NoTreeRequest
    /\ NoScoring
    /\ NoCalls

NextCalendar ==
    \/ goals = <<>> /\ AddGoal("u1", "gA", 300)
    \/ krs = <<>> /\ AddKR(1, "kA", 300)
    \/ \E d \in CalendarStamps : checkins = <<>> /\ AddCheckin(1, d, 500, "ck")
    \/ LoadAndProcessData
    \/ CalculateWeekly
    \/ CalculateMonthly

SpecCalendar == InitCalendar /\ [][NextCalendar]_vars

\* Checkins on something that is no key result of the snapshot: the
\* platform lists a checkin whose obj_export id matches no kr_id
OrphanKrId == 9
MaxOrphanCheckins == 2

AddOrphanCheckin(since, current_value, name) ==
    /\ pc = "fetch"
    /\ checkins # <<>> =>
          LET last == checkins[Len(checkins)]
          IN  \/ last.obj_export_id < OrphanKrId
              \/ last.obj_export_id = OrphanKrId /\ last.since < since
    /\ checkins' = Append(checkins, [obj_export_id |-> OrphanKrId, since |-> since,
                                     current_value |-> current_value, name |-> name])
    /\ UNCHANGED <<callVars, treeVars, scoreVars, today, jan1wd, leap, goals, krs, final_df, weekly, monthly, pc>>

InitOrphan ==
    /\ leap = FALSE
    /\ jan1wd = 2
    /\ today = DateOf(5, 20)
    /\ goals = <<>>
    /\ krs = <<>>
    /\ checkins = <<>>
    /\ final_df = <<>>
    /\ weekly = <<>>
    /\ monthly = <<>>
    /\ pc = "fetch"
    /\ NoTreeRequest
    /\ NoScoring
    /\ NoCalls

NextOrphan ==
    \/ goals = <<>> /\ AddGoal("u1", "gA", 300)
    \/ krs = <<>> /\ AddKR(1, "kA", 300)
    \/ \E d \in ReferenceStamps \cup {today}, v \in Values :
          Len(checkins) < MaxOrphanCheckins /\ AddCheckin(1, d, v, "ck")
    \/ \E d \in ReferenceStamps \cup {today}, v \in Values :
          Len(checkins) < MaxOrphanCheckins /\ AddOrphanCheckin(d, v, "ck")
    \/ LoadAndProcessData
    \/ CalculateWeekly
    \/ CalculateMonthly

SpecOrphan == InitOrphan /\ [][NextOrphan]_vars

\* Two invocations of get_goal_data in one process, each with the user
\* list its own Account request answers with
Invocations == {1, 2}
Accounts ==
    {<<[id |-> "1", name |-> "An"], [id |-> "2", name |-> "Binh"]>>,
     <<[id |-> "1", name |-> "An"], [id |-> "3", name |-> "Binh"], [id |-> "4", name |-> ""]>>,
     <<[id |-> "5", name |-> "Chi"]>>,
     <<>>}
EmployeeNames == {"An", "Binh"}

\* if not user_id_to_name_map:
CheckUserMapping(i) ==
    /\ inv # <<>>
    /\ inv[i].pc = "start"
    /\ inv' = [inv EXCEPT ![i].pc = IF user_id_to_name_map = <<>> THEN "load" ELSE "find"]
    /\ UNCHANGED <<reportVars, treeVars, scoreVars, user_id_to_name_map, req, health, alerts, visual>>

\* load_user_mapping()
LoadUserMapping(i) ==
    /\ inv # <<>>
    /\ inv[i].pc = "load"
    /\ user_id_to_name_map' = load_user_mapping(inv[i].account, user_id_to_name_map)
    /\ inv' = [inv EXCEPT ![i].pc = "find"]
    /\ UNCHANGED <<reportVars, treeVars, scoreVars, req, health, alerts, visual>>

\* The search of the employee's id in the mapping
FindEmployee(i) ==
    /\ inv # <<>>
    /\ inv[i].pc = "find"
    /\ inv' = [inv EXCEPT ![i].pc = "done",
                          ![i].employee_user_id =
                              FindEmployeeUserId(user_id_to_name_map, inv[i].employee_name)]
    /\ UNCHANGED <<reportVars, treeVars, scoreVars, user_id_to_name_map, req, health, alerts, visual>>

InitConcurrent ==
    /\ leap = FALSE
    /\ jan1wd = 2
    /\ today = DateOf(4, 23)
    /\ goals = <<>>
    /\ krs = <<>>
    /\ checkins = <<>>
    /\ final_df = <<>>
    /\ weekly = <<>>
    /\ monthly = <<>>
    /\ pc = "fetch"
    /\ NoTreeRequest
    /\ NoScoring
    /\ user_id_to_name_map = <<>>
    /\ req = <<>>
    /\ health = <<>>
    /\ alerts = <<>>
    /\ visual = <<>>
    /\ inv \in [Invocations -> [account : Accounts, employee_name : EmployeeNames,
                                 pc : {"start"}, employee_user_id : {"<null>"}]]

NextConcurrent ==
    \E i \in Invocations :
        \/ CheckUserMapping(i)
        \/ LoadUserMapping(i)
        \/ FindEmployee(i)

SpecConcurrent == InitConcurrent /\ [][NextConcurrent]_vars

\* Organization health: calls on lists of up to MaxHealthUsers entries, and
\* the call of a report run of 20 May, whose checkins are stamped a month
\* ago, three days ago, three days ahead, or not at all
MaxHealthUsers == 3
HealthShifts == {[user_name |-> "u1", okr_shift |-> FInt(v)] : v \in {-5, 0, 5}}
HealthCheckins == {[user_name |-> "u1", checkin_count_period |-> c] : c \in {0, 2}}
ListsOf(entries) == UNION {[1..n -> entries] : n \in 0..MaxHealthUsers}
HealthStamps == {0, today - 30, today - 3, today + 3}

CalculateOrganizationHealth(weekly_shifts, period_checkins, overall_checkins) ==
    /\ health = <<>>
    /\ \E overall_health_score \in
              OverallHealthScores(HealthMetrics(weekly_shifts, period_checkins)) :
          health' = [weekly_shifts |-> weekly_shifts,
                     period_checkins |-> period_checkins,
                     overall_checkins |-> overall_checkins,
                     okr_health_score |->
                         HealthMetrics(weekly_shifts, period_checkins).okr_health_score,
                     checkin_health_score |->
                         HealthMetrics(weekly_shifts, period_checkins).checkin_health_score,
                     overall_health_score |-> overall_health_score]
    /\ UNCHANGED <<reportVars, treeVars, scoreVars, user_id_to_name_map, inv, req, alerts, visual>>

\* generate_comprehensive_okr_report, steps 2 and 5
AnalyzeOrganizationHealth ==
    /\ pc = "weekly"
    /\ CalculateOrganizationHealth(weekly, PeriodCheckins(final_df), OverallCheckins(final_df))

NextHealth ==
    \/ \E u \in Users, n \in GoalNames : health = <<>> /\ AddGoal(u, n, 300)
    \/ \E g \in GoalIds, n \in KrNames : AddKR(g, n, 300)
    \/ \E k \in KrIds, d \in HealthStamps :
          Len(checkins) < MaxCheckins /\ AddCheckin(k, d, 300, "ck")
    \/ health = <<>> /\ LoadAndProcessData
    \/ CalculateWeekly
    \/ AnalyzeOrganizationHealth
    \/ \E weekly_shifts \in ListsOf(HealthShifts), period_checkins \in ListsOf(HealthCheckins) :
          goals = <<>> /\ CalculateOrganizationHealth(weekly_shifts, period_checkins, <<>>)

SpecHealth == InitOrphan /\ [][NextHealth]_vars

\* A call of _make_request: the loop starts with attempt 0. req.log lists
\* the POSTs and the sleeps of the call in the order they happen.
MakeRequest ==
    /\ req = <<>>
    /\ req' = [pc |-> "post", attempt |-> 0, log |-> <<>>, result |-> None]
    /\ UNCHANGED <<reportVars, treeVars, scoreVars, user_id_to_name_map, inv, health, alerts, visual>>

\* requests.post and raise_for_status of one attempt: the response is
\* returned, or a RequestException is caught; it is raised again when
\* attempt = max_retries
Post(outcome) ==
    /\ req # <<>>
    /\ req.pc = "post"
    /\ LET entry == [op |-> "post", attempt |-> req.attempt, outcome |-> outcome, seconds |-> 0]
       IN  req' = [req EXCEPT !.log = Append(@, entry),
                              !.pc = IF outcome = "response" THEN "returned"
                                     ELSE IF req.attempt < max_retries THEN "sleep"
                                     ELSE "raised",
                              !.result = IF outcome = "response"
                                         THEN [kind |-> "response", attempt |-> req.attempt]
                                         ELSE IF req.attempt < max_retries THEN @
                                         ELSE [kind |-> outcome, attempt |-> req.attempt]]
    /\ UNCHANGED <<reportVars, treeVars, scoreVars, user_id_to_name_map, inv, health, alerts, visual>>

\* time.sleep(wait_time), then the next round of the loop
Sleep ==
    /\ req # <<>>
    /\ req.pc = "sleep"
    /\ LET entry == [op |-> "sleep", attempt |-> req.attempt, outcome |-> None,
                     seconds |-> WaitTime(req.attempt)]
       IN  req' = [req EXCEPT !.log = Append(@, entry),
                              !.attempt = @ + 1,
                              !.pc = "post"]
    /\ UNCHANGED <<reportVars, treeVars, scoreVars, user_id_to_name_map, inv, health, alerts, visual>>

NextRequest ==
    \/ MakeRequest
    \/ Post("response")
    \/ \E e \in RequestExceptions : Post(e)
    \/ Sleep

SpecRequest == InitTree /\ [][NextRequest]_vars

\* The cycle lists a dept/team target whose dept_id or team_id ("999") is in
\* neither DEPT_ID_MAPPING nor TEAM_ID_MAPPING
AddUnmappedSubTarget(id, name, scope, parent_id, sub_goal_ids) ==
    /\ CanAddSubTarget(id, name, scope, sub_goal_ids)
    /\ \A i \in 1..Len(SubTargets) : SubTargets[i].id # id
    /\ raw_targets' = Append(raw_targets,
           [SubTarget(id, name, scope, sub_goal_ids) EXCEPT
                !.team_id = IF scope = "team" THEN "999" ELSE "",
                !.dept_id = IF scope = "dept" THEN "999" ELSE ""] @@
           [parent_id |-> parent_id, cached_objs |-> <<>>])
    /\ UNCHANGED <<callVars, reportVars, scoreVars, tree_goals, tree_krs, tree, tree_pc>>

\* get_okr_tree: _get_tree_logic, then _convert_to_visual_nodes; the
\* ToolError of _get_tree_logic is raised again
GetOkrTree ==
    /\ tree_pc = "idle"
    /\ LET targets_df == parse_targets_logic(raw_targets)
           raw_tree == get_tree_logic(targets_df, tree_goals, tree_krs)
       IN  IF targets_df = <<>>
           THEN tree_pc' = "error" /\ tree' = tree /\ visual' = visual
           ELSE /\ tree_pc' = "returned"
                /\ tree' = raw_tree
                /\ visual' = convert_to_visual_nodes(raw_tree)
    /\ UNCHANGED <<reportVars, scoreVars, raw_targets, tree_goals, tree_krs,
                   user_id_to_name_map, inv, req, health, alerts>>

NextVisual ==
    \/ \E name \in {"cA", "cB"} : AddCompanyTarget(name)
    \/ \E id \in {"t1", "t2"}, name \in {"dA", "dB"}, scope \in {"dept", "team"} :
          AddSubTarget(id, name, scope, "c1", <<>>)
    \/ \E id \in {"t1", "t2"}, name \in {"dA", "dB"}, scope \in {"dept", "team"} :
          AddUnmappedSubTarget(id, name, scope, "c1", <<>>)
    \/ \E target_id \in {"", "t1", "t2"}, team_id \in {"", "307"} :
          AddTreeGoal(target_id, team_id, "")
    \/ \E goal_id \in {"g1", "g2"} : AddTreeKR(goal_id)
    \/ GetOkrTree

SpecVisual == InitTree /\ [][NextVisual]_vars

\* The users of the account: some of u1, u2 (who can own goals) and u3
AccountIds == <<"u1", "u2", "u3">>
AccountUserLists ==
    {LET ids == SelectSeq(AccountIds, LAMBDA id : id \in chosen)
     IN  [i \in 1..Len(ids) |-> [id |-> ids[i], name |-> ids[i], username |-> ids[i]]] :
        chosen \in SUBSET {AccountIds[i] : i \in 1..Len(AccountIds)}}

\* Step 3 of generate_comprehensive_okr_report: the missing goals and
\* checkins are analysed and the alerts are generated from them
GenerateAlerts(account_users) ==
    /\ pc = "weekly"
    /\ alerts = <<>>
    /\ LET missing == analyze_missing_goals_and_checkins(final_df, account_users)
       IN  alerts' = [no_goals |-> missing.no_goals,
                      no_checkins |-> missing.no_checkins,
                      goals_no_checkins |-> missing.goals_no_checkins,
                      alerts_and_warnings |->
                          generate_alerts_and_warnings(missing.no_goals, missing.no_checkins,
                                                       missing.goals_no_checkins, weekly,
                                                       PeriodCheckins(final_df))]
    /\ UNCHANGED <<reportVars, treeVars, scoreVars, user_id_to_name_map, inv, req, health, visual>>

NextAlerts ==
    \/ \E u \in Users, n \in GoalNames : AddGoal(u, n, 300)
    \/ \E g \in GoalIds, n \in KrNames : AddKR(g, n, 300)
    \/ \E k \in KrIds, d \in {get_last_friday_date, today}, v \in Values, name \in {"ck", ""} :
          Len(checkins) < MaxCheckins /\ AddCheckin(k, d, v, name)
    \/ LoadAndProcessData
    \/ CalculateWeekly
    \/ \E account_users \in AccountUserLists : GenerateAlerts(account_users)

SpecAlerts == InitOrphan /\ [][NextAlerts]_vars

-----------------------------------------------------------------------------
(* Shift reconciliation *)

ResultsOf(results) == {results[i] : i \in 1..Len(results)}

\* The results rules 1 to 3 produced: the weekly ones, and the monthly ones
\* of a day outside week 4 and 5 of a quarter-start month
InWeek4Or5OfQuarterStartMonth ==
    /\ MonthOf(today) \in {1, 4, 7, 10}
    /\ LET weeks == get_weeks_in_current_month
       IN  \E i \in {4, 5} :
              /\ i <= Len(weeks)
              /\ weeks[i].start_date <= today
              /\ today <= weeks[i].end_date

RuledResults ==
    ResultsOf(weekly) \cup (IF monthly = <<>> \/ InWeek4Or5OfQuarterStartMonth
                            THEN {} ELSE ResultsOf(monthly))

RowsOfUser(user_name) == SelectSeq(final_df, LAMBDA row : row.goal_user_name = user_name)

\* C1: rule 1. Whenever the raw reference R of a weekly result, or of a
\* monthly result outside the special case, is greater than the current
\* value C, the result flags the reference adjustment, reports as reference
\* the float C - S and as shift S; the float C - reported reference is S
\* whenever the subtraction C - S was exact.
C1_Rule1 ==
    \A r \in RuledResults :
        FLess(r.current_value, r.original_reference_value) =>
            /\ r.reference_adjustment_applied
            /\ r.reference_value = FSub(r.current_value, r.original_shift)
            /\ r.okr_shift = r.original_shift
            /\ IsFloat(ExactSub(r.current_value, r.original_shift)) =>
                  FSub(r.current_value, r.reference_value) = r.original_shift

\* Rule 1 has acted on a weekly and on a monthly result whose subtraction
\* C - S was rounded
C1_Witness ==
    \E r \in ResultsOf(weekly), m \in ResultsOf(monthly) :
        /\ ~InWeek4Or5OfQuarterStartMonth
        /\ FLess(r.current_value, r.original_reference_value)
        /\ r.reference_adjustment_applied
        /\ r.reference_value # r.original_reference_value
        /\ ~IsFloat(ExactSub(r.current_value, r.original_shift))
        /\ FLess(m.current_value, m.original_reference_value)
        /\ m.reference_adjustment_applied
        /\ m.reference_value # m.original_reference_value

\* C1 as stated: under rule 1, C minus the reported reference is S exactly
C1_Rule1Exact ==
    \A r \in RuledResults :
        FLess(r.current_value, r.original_reference_value) =>
            /\ r.reference_adjustment_applied
            /\ r.reference_value = FSub(r.current_value, r.original_shift)
            /\ r.okr_shift = r.original_shift
            /\ FSub(r.current_value, r.reference_value) = r.original_shift

\* C2: rule 2. Whenever R < C and C - R differs from S, the reported shift
\* is C - R and not S, the shift adjustment is flagged, the reference
\* adjustment is not, and the reported reference is the raw R.
C2_Rule2 ==
    \A r \in RuledResults :
        (/\ FLess(r.original_reference_value, r.current_value)
         /\ FSub(r.current_value, r.original_reference_value) # r.original_shift) =>
            /\ r.okr_shift = FSub(r.current_value, r.original_reference_value)
            /\ r.okr_shift # r.original_shift
            /\ r.adjustment_applied
            /\ ~r.reference_adjustment_applied
            /\ r.reference_value = r.original_reference_value

\* Rule 2 has replaced the aggregate shift of a weekly and of a monthly result
C2_Witness ==
    \E r \in ResultsOf(weekly), m \in ResultsOf(monthly) :
        /\ ~InWeek4Or5OfQuarterStartMonth
        /\ r.adjustment_applied /\ r.okr_shift # r.original_shift
        /\ m.adjustment_applied /\ m.okr_shift # m.original_shift

\* C3: rule 3. When R = C, or R < C with C - R = S, a ruled result has both
\* flags false and reports the shift S and the reference R; and every
\* result, the special case included, reports as original_shift and
\* original reference the raw S and R computed from the loaded rows.
C3_Rule3 ==
    /\ \A r \in RuledResults :
          (\/ r.original_reference_value = r.current_value
           \/ /\ FLess(r.original_reference_value, r.current_value)
              /\ FSub(r.current_value, r.original_reference_value) = r.original_shift) =>
              /\ ~r.adjustment_applied
              /\ ~r.reference_adjustment_applied
              /\ r.okr_shift = r.original_shift
              /\ r.reference_value = r.original_reference_value
    /\ \A r \in ResultsOf(weekly) \cup ResultsOf(monthly) :
          LET user_df == RowsOfUser(r.user_name)
          IN  /\ r.original_shift =
                    calculate_final_okr_goal_shift(user_df, r.reference_date, final_df)
              /\ r.original_reference_value =
                    calculate_reference_value(r.reference_date, user_df)
              /\ r.current_value = calculate_current_value(user_df)

\* Results of two users left as computed, one with R below C whose direct
\* delta agrees with S and one with R = C, once the monthly results exist
C3_Witness ==
    /\ \E r \in RuledResults :
          /\ FLess(r.original_reference_value, r.current_value)
          /\ FSub(r.current_value, r.original_reference_value) = r.original_shift
          /\ ~r.adjustment_applied
    /\ \E r \in RuledResults :
          /\ r.original_reference_value = r.current_value
          /\ ~r.adjustment_applied
    /\ monthly # <<>>

\* C4: the monthly special case. On a day in week 4 or 5 of a quarter-start
\* month every monthly result reports the shift C and the reference 0,
\* whatever R and S are.
C4_MonthlySpecialCase ==
    \A r \in ResultsOf(monthly) :
        InWeek4Or5OfQuarterStartMonth =>
            /\ r.okr_shift = r.current_value
            /\ r.reference_value = FInt(0)

\* Monthly results of the special case on which rule 1 and rule 2 would
\* have reported something else
C4_Witness ==
    /\ InWeek4Or5OfQuarterStartMonth
    /\ \E r \in ResultsOf(monthly) :
          /\ FLess(r.current_value, r.original_reference_value)
          /\ r.okr_shift = r.current_value /\ r.reference_value = FInt(0)
    /\ \E r \in ResultsOf(monthly) :
          /\ FLess(r.original_reference_value, r.current_value)
          /\ r.original_shift # r.current_value
          /\ r.okr_shift = r.current_value /\ r.reference_value = FInt(0)

-----------------------------------------------------------------------------
(* The value of a key result at a reference instant *)

\* The checkins of the snapshot that are of key result kr_id, carry a stamp
\* within [quarter start, reference_date] and, if named_only, a name
CheckpointsWithin(kr_id, reference_date, named_only) ==
    {i \in 1..Len(checkins) :
        /\ checkins[i].obj_export_id = kr_id
        /\ checkins[i].since # 0
        /\ get_quarter_start_date <= checkins[i].since
        /\ checkins[i].since <= reference_date
        /\ named_only => checkins[i].name # ""}

\* The value of the latest of them, 0 when there is none
LatestValueWithin(kr_id, reference_date, named_only) ==
    LET within == CheckpointsWithin(kr_id, reference_date, named_only)
    IN  IF within = {} THEN 0
        ELSE checkins[CHOOSE i \in within :
                        \A j \in within : checkins[j].since <= checkins[i].since].current_value

\* calculate_kr_shift gives every row of a key result, at both references,
\* the key result's current value minus LatestValueWithin
KrShiftIsCurrentMinusLatest(named_only) ==
    \A i \in 1..Len(final_df) :
        \A reference_date \in {get_last_friday_date, get_last_month_end_date} :
            final_df[i].kr_id # NaN =>
                calculate_kr_shift(final_df[i], reference_date, final_df) =
                    FSub(ToNumeric(krs[final_df[i].kr_id].current_value),
                         ToNumeric(LatestValueWithin(final_df[i].kr_id, reference_date,
                                                     named_only)))

\* The checkins 10.0 at 1 January, 40.0 at 15 January and 70.0 at 31 January
\* of the only key result
ScenarioK1 ==
    /\ Len(krs) = 1
    /\ checkins = <<[obj_export_id |-> 1, since |-> DateOf(1, 1),
                     current_value |-> 100, name |-> "ck"],
                    [obj_export_id |-> 1, since |-> DateOf(1, 15),
                     current_value |-> 400, name |-> "ck"],
                    [obj_export_id |-> 1, since |-> DateOf(1, 31),
                     current_value |-> 700, name |-> "ck"]>>

\* C5: for every key result and both reference instants X, calculate_kr_shift
\* is the current value minus the value of the named checkin with the
\* greatest stamp <= X among the key result's named checkins stamped at or
\* after the quarter start, and minus 0 when there is none; with checkins
\* 10 at 1 January, 40 at 15 January, 70 at 31 January, X = 24 January and
\* current value 70 the value at X is 40 and the weekly raw shift 30.
C5_KrShift ==
    /\ KrShiftIsCurrentMinusLatest(TRUE)
    /\ ScenarioK1 /\ weekly # <<>> =>
          /\ get_last_friday_date = DateOf(1, 24)
          /\ KrReferenceValue(1, get_last_friday_date, final_df) = 400
          /\ weekly[1].original_shift = ToNumeric(300)

\* The weekly shift of the scenario is computed: the checkin of 15 January
\* is the latest of two within [quarter start, X], the third comes after X
C5_Witness ==
    /\ ScenarioK1
    /\ pc = "weekly"
    /\ CheckpointsWithin(1, get_last_friday_date, TRUE) = {1, 2}
    /\ weekly[1].original_shift = ToNumeric(300)

\* C5 as stated: every checkin of the key result stamped within
\* [quarter start, X] counts, named or not
C5_KrShiftAnyCheckin == KrShiftIsCurrentMinusLatest(FALSE)

-----------------------------------------------------------------------------
(* The reference value R and the aggregate shift S *)

AllResults == ResultsOf(weekly) \cup ResultsOf(monthly)

\* R of user_name at reference_date on the snapshot holding only the
\* checkins cs
ReferenceOn(cs, user_name, reference_date) ==
    LET df == BuildFinalDf(goals, krs, cs)
    IN  calculate_reference_value(reference_date,
                                  SelectSeq(df, LAMBDA row : row.goal_user_name = user_name))

\* The checkins stamped at or after from and at or before reference_date
CheckinsBetween(from, reference_date) ==
    SelectSeq(checkins, LAMBDA c : c.since # 0 /\ from <= c.since /\ c.since <= reference_date)

\* The checkins stamped at or before reference_date
CheckinsUpTo(reference_date) ==
    SelectSeq(checkins, LAMBDA c : c.since # 0 /\ c.since <= reference_date)

\* C6: the reference value R of every result depends only on the checkins
\* stamped at or before the reference instant: without the checkins
\* stamped after it and the ones without stamp, R is the same.  (Checkins
\* from before the quarter start are among those that count.)
C6_ReferenceUpToInstant ==
    \A r \in AllResults :
        LET kept == CheckinsUpTo(r.reference_date)
        IN  kept # <<>> =>
                r.original_reference_value = ReferenceOn(kept, r.user_name, r.reference_date)

\* A weekly R that comes from a checkin before the quarter start, in a
\* snapshot with another checkin of the user after the reference instant
C6_Witness ==
    \E r \in ResultsOf(weekly) :
        /\ r.original_reference_value # FInt(0)
        /\ CheckinsBetween(get_quarter_start_date, r.reference_date) = <<>>
        /\ CheckinsUpTo(r.reference_date) # <<>>
        /\ CheckinsBetween(r.reference_date + 1, today) # <<>>

\* C6 as stated: R depends only on the checkins stamped within
\* [quarter start, reference instant]; without the others R is the same
C6_ReferenceWithinQuarter ==
    \A r \in AllResults :
        LET kept == CheckinsBetween(get_quarter_start_date, r.reference_date)
        IN  kept # <<>> =>
                r.original_reference_value = ReferenceOn(kept, r.user_name, r.reference_date)

\* The key results of user_name under a goal named goal_name, in krs order
KrsOfGoalName(user_name, goal_name) ==
    SelectSeq(krs, LAMBDA k : /\ goals[k.goal_id].user_id = user_name
                             /\ goals[k.goal_id].name = goal_name)

\* The value of the latest named checkin of kr_id stamped at or before
\* reference_date; none marks a key result that has none
ValueAtReference(kr_id, reference_date, none) ==
    LET upto == {i \in 1..Len(checkins) :
                    /\ checkins[i].obj_export_id = kr_id
                    /\ checkins[i].since # 0
                    /\ checkins[i].since <= reference_date
                    /\ checkins[i].name # ""}
    IN  IF upto = {} THEN none
        ELSE checkins[CHOOSE i \in upto :
                        \A j \in upto : checkins[j].since <= checkins[i].since].current_value

\* C7: R is the mean, over the goal names of the user's key results, of the
\* mean over all key results of that goal name of the value at the
\* reference instant, where a key result without checkin at or before the
\* reference instant is a term 0 of that mean; the result counts every key
\* result of the user in kr_details_count.
C7_NoCheckinCountsAsZero ==
    \A r \in AllResults :
        LET mine == SelectSeq(krs, LAMBDA k : goals[k.goal_id].user_id = r.user_name)
            names == Unique([i \in 1..Len(mine) |-> goals[mine[i].goal_id].name])
            GoalAverage(n) ==
                LET of == KrsOfGoalName(r.user_name, n)
                IN  Mean([i \in 1..Len(of) |->
                            ToNumeric(ValueAtReference(of[i].id, r.reference_date, 0))])
        IN  /\ r.kr_details_count = Len(mine)
            /\ r.original_reference_value =
                  Mean([i \in 1..Len(names) |-> GoalAverage(names[i])])

\* A result of a user with two key results under one goal, one with a
\* checkin of 30.0 at the reference and one without any: R is 15.0
C7_Witness ==
    \E r \in AllResults :
        /\ Len(KrsOfGoalName(r.user_name, "gA")) = 2
        /\ \E k \in 1..2 : ValueAtReference(k, r.reference_date, -1) = -1
        /\ \E k \in 1..2 : ValueAtReference(k, r.reference_date, -1) = 300
        /\ r.original_reference_value = ToNumeric(150)

\* The (goal, key result) pairs of the rows of user_name, goals without key
\* result paired with NaN, in row order
PairsOfUser(user_name) ==
    LET rows == RowsOfUser(user_name)
    IN  Unique([i \in 1..Len(rows) |-> <<rows[i].goal_id, rows[i].kr_id>>])

\* C8: S is the mean of one term per distinct (goal, key result) pair of
\* the user's rows, the term being the shift of that key result, however
\* many rows the joins made of the pair.
C8_OneTermPerPair ==
    \A r \in AllResults :
        LET rows == RowsOfUser(r.user_name)
            pairs == PairsOfUser(r.user_name)
            Term(pair) ==
                LET i == CHOOSE i \in 1..Len(rows) :
                            <<rows[i].goal_id, rows[i].kr_id>> = pair
                IN  calculate_kr_shift(rows[i], r.reference_date, final_df)
        IN  r.original_shift = Mean([i \in 1..Len(pairs) |-> Term(pairs[i])])

-----------------------------------------------------------------------------
(* Positions in the alignment tree *)

ElementsOf(s) == {s[i] : i \in 1..Len(s)}

\* The goal positions of a tree: under a dept/team node of a company, or
\* under a group of the personal branch
CompanyGoalPositions(t) ==
    UNION {UNION {UNION {{<<"company", co, sc, dt, g>> :
                            g \in DOMAIN t[co].target_dept_or_team[sc][dt].goals} :
                         dt \in DOMAIN t[co].target_dept_or_team[sc]} :
                  sc \in DOMAIN t[co].target_dept_or_team} :
           co \in {c \in DOMAIN t : t[c].type = "company"}}

PersonalGoalPositions(t) ==
    UNION {UNION {{<<"personal", "PERSONAL", "", gr, g>> : g \in DOMAIN t[p].groups[gr]} :
                  gr \in DOMAIN t[p].groups} :
           p \in {c \in DOMAIN t : t[c].type = "personal"}}

GoalPositions(t) == CompanyGoalPositions(t) \cup PersonalGoalPositions(t)

\* The goal record at a position
GoalAt(t, pos) ==
    IF pos[1] = "company"
    THEN t[pos[2]].target_dept_or_team[pos[3]][pos[4]].goals[pos[5]]
    ELSE t[pos[2]].groups[pos[4]][pos[5]]

\* The leaf positions: a goal position and a key result under it
LeafPositions(t) ==
    UNION {{<<pos, k>> : k \in DOMAIN GoalAt(t, pos).krs} : pos \in GoalPositions(t)}

ConsistentGoalLinkage ==
    \A k \in ElementsOf(tree_krs) : \E g \in ElementsOf(tree_goals) : g.id = k.goal_id

\* C9: given consistent goal linkage, every key result of the snapshot is
\* at exactly one leaf position of the built tree (company branches and
\* personal branch together): none is lost and none is duplicated.
C9_EveryKrAtOneLeaf ==
    tree_pc = "built" /\ ConsistentGoalLinkage =>
        \A k \in ElementsOf(tree_krs) :
            Cardinality({leaf \in LeafPositions(tree) : leaf[2] = k.id}) = 1

\* C10: a goal whose target_id is set (not absent, not empty, not "0") and matches no
\* target is never left out of the built tree: it is under a target whose
\* membership list names it, and when no list names it, it is in the
\* personal branch.
C10_UnmatchedGoalKept ==
    tree_pc = "built" =>
        LET rows == ElementsOf(parse_targets_logic(raw_targets))
            listing(g) == {row \in rows : g.id \in ElementsOf(row.list_goal_id)}
        IN  \A g \in ElementsOf(tree_goals) :
                /\ g.target_id \notin {None, "", "0"}
                /\ \A row \in rows : row.target_id # g.target_id
                => IF listing(g) # {}
                   THEN \E row \in listing(g), pos \in CompanyGoalPositions(tree) :
                            /\ pos[3] = row.target_scope
                            /\ pos[4] = row.target_name
                            /\ pos[5] = g.id
                   ELSE \E pos \in PersonalGoalPositions(tree) : pos[5] = g.id

-----------------------------------------------------------------------------
(* Targets related to a company root in two ways *)

\* The ids of the dept/team targets that name the company target co by
\* parent_id and that are also in the cached_objs of co
DoublyRelated(co) ==
    {t.id : t \in {x \in ElementsOf(SubTargets) : x.parent_id = co.id}}
        \cap {o.id : o \in ElementsOf(co.cached_objs)}

\* The (scope, name) node keys under the company node of co that a row of
\* the target id gives
NodesOfTarget(co, id) ==
    {<<pos[3], pos[4]>> : pos \in
        {q \in CompanyGoalPositions(tree) :
            /\ q[2] = co.name
            /\ \E row \in ElementsOf(parse_targets_logic(raw_targets)) :
                  /\ row.target_id = id /\ row.target_company_id = co.id
                  /\ row.target_scope = q[3] /\ row.target_name = q[4]}}

\* C11: a dept/team target related to a company root both by parent_id and
\* by the root's cached_objs is attached under that company once: one target
\* node, and each goal aligned to it at one position, also when the two
\* representations differ in name or scope.
C11_DoublyRelatedAttachedOnce ==
    tree_pc = "built" =>
        \A co \in ElementsOf(CompanyTargets) : \A id \in DoublyRelated(co) :
            /\ Cardinality(NodesOfTarget(co, id)) <= 1
            /\ \A g \in ElementsOf(tree_goals) :
                   g.target_id = id =>
                       Cardinality({pos \in CompanyGoalPositions(tree) : pos[5] = g.id}) = 1

-----------------------------------------------------------------------------
(* Pruning *)

\* The ids of the key results of the goal g_id
KrIdsOfGoal(g_id) == {k.id : k \in {x \in ElementsOf(tree_krs) : x.goal_id = g_id}}

\* C12: in the built tree a dept/team node has at least one goal and a
\* company node at least one dept/team node, while goals are not pruned by
\* their key results: the goal positions are those of the same request
\* without any key result, every personal goal is in the personal branch,
\* and each goal carries exactly its key results, none if it has none.
C12_PruningAsymmetry ==
    tree_pc = "built" =>
        /\ \A co \in {c \in DOMAIN tree : tree[c].type = "company"} :
               /\ DOMAIN tree[co].target_dept_or_team # {}
               /\ \A sc \in DOMAIN tree[co].target_dept_or_team :
                      /\ DOMAIN tree[co].target_dept_or_team[sc] # {}
                      /\ \A dt \in DOMAIN tree[co].target_dept_or_team[sc] :
                             DOMAIN tree[co].target_dept_or_team[sc][dt].goals # {}
        /\ GoalPositions(tree) =
               GoalPositions(get_tree_logic(parse_targets_logic(raw_targets), tree_goals, <<>>))
        /\ \A g \in ElementsOf(tree_goals) :
               g.target_id \in {"", "0"} =>
                   \E pos \in PersonalGoalPositions(tree) : pos[5] = g.id
        /\ \A pos \in GoalPositions(tree) :
               DOMAIN GoalAt(tree, pos).krs = KrIdsOfGoal(pos[5])

\* A built tree with a goal without key results under a target node, while
\* another target row has no goal and gives no node
C12_Witness ==
    /\ tree_pc = "built"
    /\ \E pos \in CompanyGoalPositions(tree) : DOMAIN GoalAt(tree, pos).krs = {}
    /\ \E row \in ElementsOf(parse_targets_logic(raw_targets)) :
          /\ \A g \in ElementsOf(tree_goals) : g.target_id # row.target_id
          /\ \A pos \in CompanyGoalPositions(tree) : pos[4] # row.target_name

-----------------------------------------------------------------------------
(* The personal branch *)

IsSet(id) == id \notin {None, "", "0"}

\* C13: a goal whose target_id is absent, empty or "0" is in the personal
\* branch at one position and nowhere else, in the group of its team_id
\* when that is set and not "0", else in the group of its dept_id, and
\* under "Unknown Group" when both are unset.
C13_PersonalPlacement ==
    tree_pc = "built" =>
        \A g \in ElementsOf(tree_goals) :
            ~IsSet(g.target_id) =>
                /\ \A pos \in CompanyGoalPositions(tree) : pos[5] # g.id
                /\ Cardinality({pos \in PersonalGoalPositions(tree) : pos[5] = g.id}) = 1
                /\ \A pos \in PersonalGoalPositions(tree) :
                       pos[5] = g.id =>
                           /\ IsSet(g.team_id) /\ g.team_id \in DOMAIN TEAM_ID_MAPPING
                                  => pos[4] = TEAM_ID_MAPPING[g.team_id]
                           /\ ~IsSet(g.team_id) /\ IsSet(g.dept_id)
                                  /\ g.dept_id \in DOMAIN DEPT_ID_MAPPING
                                  => pos[4] = DEPT_ID_MAPPING[g.dept_id]
                           /\ ~IsSet(g.team_id) /\ ~IsSet(g.dept_id)
                                  => pos[4] = "Unknown Group"

\* C14: a goal of the personal branch whose team_id or dept_id is set but
\* is no key of TEAM_ID_MAPPING / DEPT_ID_MAPPING is under "Unknown Group".
C14_UnmappedIdIsUnknownGroup ==
    tree_pc = "built" =>
        \A g \in ElementsOf(tree_goals) : \A pos \in PersonalGoalPositions(tree) :
            /\ pos[5] = g.id
            /\ \/ IsSet(g.team_id) /\ g.team_id \notin DOMAIN TEAM_ID_MAPPING
               \/ ~IsSet(g.team_id) /\ IsSet(g.dept_id)
                     /\ g.dept_id \notin DOMAIN DEPT_ID_MAPPING
            => pos[4] = "Unknown Group"

-----------------------------------------------------------------------------
(* The movement bonus of a user's score *)

\* The bonus the score of a user holds: the score without the base 0.5,
\* the cadence bonus and the OKR bonus
MovementBonus(user) ==
    user.score - 50 - (IF user.checkin = 1 THEN 50 ELSE 0)
                    - (IF user.co_OKR = 1 THEN 100 ELSE 0)

\* The bonus of the first row whose threshold is strictly greater than the
\* movement, written out interval by interval
BonusOfInterval(movement) ==
    IF movement < 1000 THEN 15
    ELSE IF movement < 2500 THEN 25
    ELSE IF movement < 3000 THEN 50
    ELSE IF movement < 5000 THEN 75
    ELSE IF movement < 8000 THEN 125
    ELSE IF movement < 9900 THEN 150
    ELSE 250

\* C15: calculate_score adds exactly one movement bonus, the one of the
\* first row whose threshold is strictly greater than the movement: 24.9
\* earns 0.25, 25.0 earns 0.5, 99 and more earn 2.5, less than 10 (negative
\* movements included) earns 0.15.
C15_OneMovementBonus ==
    um_pc = "scored" =>
        \A name \in DOMAIN um_users :
            /\ MovementBonus(um_users[name]) = BonusOfInterval(um_users[name].dich_chuyen_OKR)
            /\ um_users[name].dich_chuyen_OKR = 2490 => MovementBonus(um_users[name]) = 25
            /\ um_users[name].dich_chuyen_OKR = 2500 => MovementBonus(um_users[name]) = 50
            /\ um_users[name].dich_chuyen_OKR >= 9900 => MovementBonus(um_users[name]) = 250
            /\ um_users[name].dich_chuyen_OKR < 1000 => MovementBonus(um_users[name]) = 15

\* A scored user whose movement is exactly the threshold 25.0 and whose
\* bonus is that of the next row
C15_Witness ==
    /\ um_pc = "scored"
    /\ um_users["u1"].dich_chuyen_OKR = 2500
    /\ MovementBonus(um_users["u1"]) = 50
    /\ um_users["u1"].score = 200

-----------------------------------------------------------------------------
(* The cadence bonus of a user's score *)

\* The checkpoints of a user timestamped in the current calendar month: the
\* fetched checkins on key results of the user's goals
CheckpointsInMonth(name) ==
    Cardinality({i \in 1..Len(checkins) :
                    /\ checkins[i].since # 0
                    /\ InCurrentMonth(checkins[i].since)
                    /\ goals[krs[checkins[i].obj_export_id].goal_id].user_id = name})

CadenceEarned(name) == is_last_week_of_month /\ CheckpointsInMonth(name) > 3

\* C16: after calculate_scores a user's cadence contribution is +0.5
\* exactly when the evaluation date lies in the last week of the month and
\* the user has more than 3 checkpoints timestamped in the current month;
\* otherwise checkin is 0 and nothing is added, whatever checkin held before.
C16_CadenceContribution ==
    um_pc = "scored" =>
        \A name \in DOMAIN um_users :
            /\ um_users[name].checkin = (IF CadenceEarned(name) THEN 1 ELSE 0)
            /\ um_users[name].score - 50 - (IF um_users[name].co_OKR = 1 THEN 100 ELSE 0)
                    - BonusOfInterval(um_users[name].dich_chuyen_OKR)
               = (IF CadenceEarned(name) THEN 50 ELSE 0)

-----------------------------------------------------------------------------
(* The risk of a user *)

\* The penalties the claim names, on the figures handed to the assessment
\* (a figure that is missing counts as 0)
PenaltySum(shift, period_count, per_week, kr_count) ==
      (IF shift < 0 THEN 30 ELSE 0) + (IF period_count < 2 THEN 25 ELSE 0)
    + (IF per_week < 10 THEN 20 ELSE 0) + (IF kr_count = 0 THEN 25 ELSE 0)

\* C17: _assess_user_risk returns the sum of the penalties that fire
\* independently (shift < 0: 30; fewer than 2 checkins in the period: 25;
\* fewer than 1 checkin per week: 20; no key result: 25); the level is
\* High ('Cao') iff the score is at least 60, Medium ('Trung binh') iff it
\* is at least 30 and below 60, Low ('Thap') otherwise; shift -5, 1
\* checkin, 0.5 checkins per week and 2 key results give 75 and High.
C17_RiskIsSumOfPenalties ==
    risk_call # <<>> =>
        LET shift == Get(risk_call[1], "okr_shift", 0)
            period_count == Get(risk_call[2], "checkin_count_period", 0)
            per_week == Get(risk_call[3], "checkin_frequency_per_week", 0)
            kr_count == Get(risk_call[1], "kr_details_count", 0)
        IN  /\ risk.risk_score = PenaltySum(shift, period_count, per_week, kr_count)
            /\ risk.risk_level = "Cao" <=> risk.risk_score >= 60
            /\ risk.risk_level = "Trung binh" <=> risk.risk_score >= 30 /\ risk.risk_score < 60
            /\ risk.risk_level = "Thap" <=> risk.risk_score < 30
            /\ shift = -50 /\ period_count = 1 /\ per_week = 5 /\ kr_count = 2
                    => risk.risk_score = 75 /\ risk.risk_level = "Cao"

\* The assessment of the user with shift -5, 1 checkin in the period, 0.5
\* checkins per week and 2 key results
C17_Witness ==
    /\ risk_call # <<>>
    /\ risk_call[1].okr_shift = -50 /\ risk_call[1].kr_details_count = 2
    /\ "checkin_count_period" \in DOMAIN risk_call[2] /\ risk_call[2].checkin_count_period = 1
    /\ "checkin_frequency_per_week" \in DOMAIN risk_call[3]
    /\ risk_call[3].checkin_frequency_per_week = 5
    /\ risk.risk_score = 75 /\ risk.risk_level = "Cao" /\ Len(risk.risk_factors) = 3

-----------------------------------------------------------------------------
(* The gate of the monthly shift *)

\* The week-of-month number of a day: the row of the day in the month's
\* calendar, whose rows run from Monday to Sunday
WeekOfMonth(day) ==
    LET first_day == DateOf(MonthOf(day), 1)
    IN  ((day - first_day + Weekday(first_day)) \div 7) + 1

MonthlyShiftExpected ==
    ~(MonthOf(today) \in {1, 4, 7, 10} /\ WeekOfMonth(today) \notin {4, 5})

\* C18: should_calculate_monthly_shift (goal.py and okr_report_service.py)
\* returns false exactly when the current month is one of 1, 4, 7, 10 and
\* the current week-of-month number is neither 4 nor 5, and true otherwise;
\* on every day where it is false the report holds no monthly shift result.
C18_MonthlyShiftGate ==
    /\ should_calculate_monthly_shift = MonthlyShiftExpected
    /\ service_should_calculate_monthly_shift = MonthlyShiftExpected
    /\ pc = "done" /\ ~MonthlyShiftExpected => monthly = <<>>

-----------------------------------------------------------------------------
(* The weeks of the current month *)

\* C19: _get_weeks_in_current_month partitions the month, whatever its
\* length and the weekday of day 1: the spans are numbered 1..n, pairwise
\* disjoint and contiguous, the first starts at day 1 and the last ends at
\* the last day, every day of the month lies in exactly one span, every
\* span but the first starts on a Monday and every span but the last ends
\* on a Sunday.
C19_WeeksPartitionMonth ==
    LET weeks == get_weeks_in_current_month
        n == Len(weeks)
        first_day == DateOf(MonthOf(today), 1)
        last_day == DateOf(MonthOf(today), DaysInMonth(MonthOf(today)))
    IN  /\ n >= 1
        /\ \A i \in 1..n : weeks[i].week_number = i
        /\ weeks[1].start_date = first_day
        /\ weeks[n].end_date = last_day
        /\ \A i \in 1..(n - 1) : weeks[i + 1].start_date = weeks[i].end_date + 1
        /\ \A i, j \in 1..n :
                i < j => weeks[i].end_date < weeks[j].start_date
        /\ \A day \in first_day..last_day :
                Cardinality({i \in 1..n : weeks[i].start_date <= day
                                           /\ day <= weeks[i].end_date}) = 1
        /\ \A i \in 2..n : Weekday(weeks[i].start_date) = 0
        /\ \A i \in 1..(n - 1) : Weekday(weeks[i].end_date) = 6

-----------------------------------------------------------------------------
(* The reference Friday of the weekly shift *)

\* C20: get_last_friday_date is a Friday of the week before the week of
\* today: it lies strictly before the Monday of the current week, in the
\* seven days before that Monday, and between 3 and 9 days before today; on
\* a Saturday or Sunday it is not the Friday of the same week.
C20_LastFridayOfPreviousWeek ==
    LET monday == today - Weekday(today)
    IN  /\ Weekday(get_last_friday_date) = 4
        /\ get_last_friday_date < monday
        /\ get_last_friday_date >= monday - 7
        /\ today - get_last_friday_date \in 3..9
        /\ Weekday(today) \in {5, 6} => get_last_friday_date # monday + 4

\* A weekly report computed on a Sunday, 9 days after its reference Friday
C20_Witness ==
    /\ pc \in {"weekly", "done"}
    /\ weekly # <<>>
    /\ Weekday(today) = 6
    /\ today - get_last_friday_date = 9

-----------------------------------------------------------------------------
(* Checkins that match no key result *)

\* The snapshot without the checkins whose kr_id matches no key result
MatchedCheckins ==
    SelectSeq(checkins, LAMBDA c : c.obj_export_id \in {krs[i].id : i \in 1..Len(krs)})

HasOrphanCheckin == MatchedCheckins # checkins

\* The run on the snapshot without those checkins ends in an error
FailsWithoutOrphans == goals = <<>> \/ krs = <<>> \/ MatchedCheckins = <<>>

\* C21: a checkin whose kr_id matches no key result of the snapshot is
\* ignored without error: the run ends as the run on the snapshot without
\* that checkin ends, and the merged frame and the weekly and monthly
\* results (hence every output derived from them) are those of the
\* snapshot without it.
C21_OrphanCheckinIgnored ==
    pc # "fetch" =>
        /\ (pc = "failed") = FailsWithoutOrphans
        /\ pc # "failed" => final_df = BuildFinalDf(goals, krs, MatchedCheckins)
        /\ pc \in {"weekly", "done"} =>
                weekly = calculate_okr_shifts_by_user(BuildFinalDf(goals, krs, MatchedCheckins))
        /\ pc = "done" =>
                monthly = calculate_okr_shifts_by_user_monthly(
                              BuildFinalDf(goals, krs, MatchedCheckins))

-----------------------------------------------------------------------------
(* Requests on a snapshot with missing data *)

\* C22: no core operation ends in an error on a snapshot with missing
\* data: the report run does not fail, and a tree request answers with a
\* tree that holds, in its personal branch, every goal without target_id,
\* also when the list of targets is empty.
C22_BestEffortResult ==
    /\ pc # "failed"
    /\ tree_pc # "error"
    /\ tree_pc = "built" =>
            \A g \in ElementsOf(tree_goals) :
                g.target_id \in {"", "0"} =>
                    \E pos \in PersonalGoalPositions(tree) : pos[5] = g.id

-----------------------------------------------------------------------------
(* Invocations that run concurrently *)

\* What an invocation finds when it runs alone on its snapshot
AloneUserId(account, employee_name) ==
    FindEmployeeUserId(load_user_mapping(account, <<>>), employee_name)

\* C23: two invocations that run concurrently, each on its own snapshot,
\* share no mutable state: the result of each is the one it has when it
\* runs alone, and the name mapping it reads is the one of its own snapshot.
C23_NoSharedState ==
    inv # <<>> =>
        \A i \in Invocations :
            /\ inv[i].pc = "done" =>
                    inv[i].employee_user_id = AloneUserId(inv[i].account, inv[i].employee_name)
            /\ inv[i].pc = "find" =>
                    user_id_to_name_map = load_user_mapping(inv[i].account, <<>>)

-----------------------------------------------------------------------------
(* Rates and averages over nothing *)

\* What holds of every call of _calculate_organization_health and of every
\* frame, whatever the rounding of the overall score
GuardedDenominators ==
    /\ calculate_current_value(<<>>) = FInt(0)
    /\ calculate_reference_value(get_last_friday_date, <<>>) = FInt(0)
    /\ calculate_final_okr_goal_shift(<<>>, get_last_friday_date, final_df) = FInt(0)
    /\ TotalWeeks(final_df) >= 1
    /\ health # <<>> =>
            /\ health.weekly_shifts = <<>> => health.okr_health_score = 0
            /\ health.period_checkins = <<>> => health.checkin_health_score = 0
            /\ health.okr_health_score \in 0..1000
            /\ health.checkin_health_score \in 0..1000
            /\ health.overall_health_score \in 0..1000
            /\ \A i \in 1..Len(health.period_checkins) :
                    "total_weeks" \in DOMAIN health.period_checkins[i]
                        => health.period_checkins[i].total_weeks >= 1

\* C24 as stated: no rate or average divides by an empty denominator (C, R
\* and S of no goal are 0, the health scores of empty lists are 0, the
\* weekly rate divides by total_weeks >= 1), and overall_health_score is the
\* average of okr_health_score and checkin_health_score and lies in 0..100.
C24_AverageOfScores ==
    /\ GuardedDenominators
    /\ health # <<>> =>
            2 * health.overall_health_score
                = health.okr_health_score + health.checkin_health_score

\* C24, amended: as stated, but overall_health_score is the average of the
\* two scores rounded to one decimal, at most 0.05 away from the average.
C24_RoundedAverageOfScores ==
    /\ GuardedDenominators
    /\ health # <<>> =>
            LET sum == health.okr_health_score + health.checkin_health_score
            IN  /\ 2 * health.overall_health_score - sum \in {-1, 0, 1}
                /\ sum % 2 = 0 => 2 * health.overall_health_score = sum

\* A call with no shift entry and three checkin entries of which one has
\* checkins: the scores are 0 and 33.3, the overall score is next to 16.65
C24_Witness ==
    /\ health # <<>>
    /\ health.weekly_shifts = <<>>
    /\ Len(health.period_checkins) = 3
    /\ health.okr_health_score = 0
    /\ health.checkin_health_score = 333
    /\ health.overall_health_score \in {166, 167}

-----------------------------------------------------------------------------
(* The gate of the monthly shift as the month goes by *)

\* The number of the first week partition that holds today
CurrentWeekNumber ==
    LET weeks == get_weeks_in_current_month
    IN  CHOOSE i \in 1..Len(weeks) :
            /\ weeks[i].start_date <= today /\ today <= weeks[i].end_date
            /\ \A j \in 1..(i - 1) : ~(weeks[j].start_date <= today /\ today <= weeks[j].end_date)

\* C25: on every day of a quarter-start month should_calculate_monthly_shift
\* is false while the day lies in the week partitions 1 to 3 and true on
\* every day from week 4 to the end of the month, the days of a sixth
\* partition included: once true, it stays true as the month goes by.
C25_OpenUntilMonthEnd ==
    MonthOf(today) \in QUARTER_START_MONTHS
        => (should_calculate_monthly_shift <=> CurrentWeekNumber >= 4)

-----------------------------------------------------------------------------
(* The goals behind C and behind R *)

\* The terms of the mean calculate_current_value returns: one per group
CurrentTerms(df) == Unique([i \in 1..Len(df) |-> df[i].goal_name])

\* The terms of the mean calculate_reference_value returns: one per key of
\* final_goal_values
ReferenceTerms(df) ==
    LET kr_details == ReferenceKrDetails(get_last_friday_date, df)
    IN  Unique([i \in 1..Len(kr_details) |-> kr_details[i].goal_name])

\* The distinct goals of a frame
GoalsOf(df) == {df[i].goal_id : i \in 1..Len(df)}

\* The goals of a frame that have a term of their own in a list of terms
OwnTerm(df, terms) ==
    {g \in GoalsOf(df) :
        \E i \in 1..Len(terms) :
            {df[j].goal_id : j \in {k \in 1..Len(df) : df[k].goal_name = terms[i]}} = {g}}

\* C26: for each user, C and R are means over the same set of distinct
\* goals: each goal of the user has one term of its own in C and one in R,
\* and neither mean has further terms; this includes goals without key
\* result and goals that share a name.
C26_SameGoalsInCAndR ==
    pc \in {"loaded", "weekly", "done"} =>
        \A user \in Users :
            LET df == RowsOfUser(user)
            IN  /\ OwnTerm(df, CurrentTerms(df)) = GoalsOf(df)
                /\ OwnTerm(df, ReferenceTerms(df)) = GoalsOf(df)
                /\ Len(CurrentTerms(df)) = Len(ReferenceTerms(df))

-----------------------------------------------------------------------------
(* The monthly window of a quarter-start month *)

\* The mean, over the unique (goal, key result) pairs of a frame, of the
\* current value of the pair's key result rows
MeanOfCurrentValues(user_df) ==
    LET keys == Unique([i \in 1..Len(user_df) |-> ComboKey(user_df[i])])
        Vals(k) == LET rows == SelectSeq(user_df, LAMBDA r : ComboKey(r) = k)
                   IN  [i \in 1..Len(rows) |-> ToNumeric(rows[i].kr_current_value)]
    IN  Mean([i \in 1..Len(keys) |-> Mean(Vals(keys[i]))])

C27_WitnessMonthly ==
    /\ MonthOf(today) \in QUARTER_START_MONTHS
    /\ pc = "done"
    /\ monthly # <<>>

-----------------------------------------------------------------------------
(* The retries of _make_request *)

\* The POSTs of the call so far
PostsOf(log) == SelectSeq(log, LAMBDA e : e.op = "post")

\* C28: a call of _make_request makes at most 4 POSTs; it returns the
\* response of the first successful POST and does nothing after it; a
\* failed attempt k = 0, 1, 2 is followed by a wait of 2^k seconds and then
\* by attempt k + 1; the exception reaches the caller only after the 4th
\* failure in a row, and no wait follows that failure.
C28_RetryWithBackoff ==
    req # <<>> =>
        LET log == req.log
            posts == PostsOf(log)
        IN  /\ Len(posts) <= 4
            /\ \A i \in 1..Len(posts) : posts[i].attempt = i - 1
            /\ \A i \in 1..Len(log) :
                  /\ (log[i].op = "post" /\ log[i].outcome = "response") =>
                        /\ i = Len(log)
                        /\ req.pc = "returned"
                        /\ req.result = [kind |-> "response", attempt |-> log[i].attempt]
                  /\ (log[i].op = "post" /\ log[i].outcome # "response" /\ log[i].attempt \in 0..2) =>
                        /\ i = Len(log) => req.pc = "sleep"
                        /\ i < Len(log) =>
                              /\ log[i + 1].op = "sleep"
                              /\ log[i + 1].seconds = 2 ^ log[i].attempt
                        /\ i + 1 < Len(log) =>
                              /\ log[i + 2].op = "post"
                              /\ log[i + 2].attempt = log[i].attempt + 1
                  /\ (log[i].op = "post" /\ log[i].outcome # "response" /\ log[i].attempt = 3) =>
                        /\ i = Len(log)
                        /\ req.pc = "raised"
                        /\ req.result = [kind |-> log[i].outcome, attempt |-> 3]
                  /\ log[i].op = "sleep" => (i > 1 /\ log[i - 1].op = "post")
            /\ req.pc = "returned" =>
                  /\ posts # <<>>
                  /\ posts[Len(posts)].outcome = "response"
            /\ req.pc = "raised" =>
                  /\ Len(posts) = 4
                  /\ \A i \in 1..4 : posts[i].outcome \in RequestExceptions
                  /\ log[Len(log)].op = "post"
            /\ req.pc \in {"post", "sleep"} => req.result = None

\* A call that failed three times, waited 1, 2 and 4 seconds, and got a
\* response at the fourth attempt
C28_Witness ==
    /\ req # <<>>
    /\ req.pc = "returned"
    /\ Len(req.log) = 7
    /\ [i \in 1..3 |-> req.log[2 * i].seconds] = <<1, 2, 4>>
    /\ req.result = [kind |-> "response", attempt |-> 3]

\* A call that raised after four failures
C28_WitnessRaised ==
    /\ req # <<>>
    /\ req.pc = "raised"
    /\ req.result.kind = "Timeout"

-----------------------------------------------------------------------------
(* The raw tree and the display tree *)

RECURSIVE SumOf(_)
SumOf(s) == IF s = <<>> THEN 0 ELSE Head(s) + SumOf(Tail(s))

\* The goals dicts of one entry of the raw tree
GoalDictsOf(node_data) ==
    IF node_data.type = "company"
    THEN LET dtt == node_data.target_dept_or_team
             scopes == KeyList(DOMAIN dtt)
             Of(scope) == [i \in 1..Len(KeyList(DOMAIN dtt[scope])) |->
                             dtt[scope][KeyList(DOMAIN dtt[scope])[i]].goals]
         IN  Concat([i \in 1..Len(scopes) |-> Of(scopes[i])])
    ELSE [i \in 1..Len(KeyList(DOMAIN node_data.groups)) |->
             node_data.groups[KeyList(DOMAIN node_data.groups)[i]]]

\* The numbers of goals and of key results of one entry of the raw tree
RawGoalCount(node_data) ==
    SumOf([i \in 1..Len(GoalDictsOf(node_data)) |-> Cardinality(DOMAIN GoalDictsOf(node_data)[i])])

RawKrCount(node_data) ==
    LET KrsOf(goals_dict) ==
            SumOf([i \in 1..Len(KeyList(DOMAIN goals_dict)) |->
                     Cardinality(DOMAIN goals_dict[KeyList(DOMAIN goals_dict)[i]].krs)])
    IN  SumOf([i \in 1..Len(GoalDictsOf(node_data)) |-> KrsOf(GoalDictsOf(node_data)[i])])

\* The goal nodes below a top node of the display tree (top node, then
\* target or group, then goal)
GoalNodesBelow(top_node) ==
    Concat([i \in 1..Len(top_node.children) |-> top_node.children[i].children])

\* The top nodes of the display tree made for the entry top_key
TopNodesOf(top_key) ==
    SelectSeq(visual.children,
              LAMBDA n : n.label = <<tree[top_key].type, tree[top_key].name>>)

\* C29: each entry of the raw tree has exactly one top node in the tree
\* get_okr_tree returns, with as many goal nodes and key result nodes below
\* it as the entry has goals and key results, and no company node has an
\* empty children list.
C29_NothingLost ==
    tree_pc = "returned" =>
        /\ \A top_key \in DOMAIN tree :
              /\ Len(TopNodesOf(top_key)) = 1
              /\ LET goal_nodes == GoalNodesBelow(TopNodesOf(top_key)[1])
                 IN  /\ Len(goal_nodes) = RawGoalCount(tree[top_key])
                     /\ SumOf([i \in 1..Len(goal_nodes) |-> Len(goal_nodes[i].children)])
                            = RawKrCount(tree[top_key])
        /\ \A i \in 1..Len(visual.children) :
              visual.children[i].label[1] = "company" => visual.children[i].children # <<>>

-----------------------------------------------------------------------------
(* The lists of missing goals and checkins, and their alerts *)

\* The ids of the users of a list
IdsOf(users) == {users[i].id : i \in 1..Len(users)}

\* The users (name and username) that have an alert of a type in a list
AlertedUsers(issues, type) ==
    {<<issues[i].user, issues[i].username>> :
        i \in {j \in 1..Len(issues) : issues[j].type = type}}

\* C30: no_goals is part of no_checkins, goals_no_checkins is no_checkins
\* without no_goals, no_goals and goals_no_checkins share no user, and every
\* user with a NO_GOALS alert or a moderate GOALS_NO_CHECKINS alert has a
\* critical NO_CHECKINS alert.
C30_MissingListsNested ==
    alerts # <<>> =>
        /\ IdsOf(alerts.no_goals) \subseteq IdsOf(alerts.no_checkins)
        /\ IdsOf(alerts.goals_no_checkins) = IdsOf(alerts.no_checkins) \ IdsOf(alerts.no_goals)
        /\ IdsOf(alerts.no_goals) \cap IdsOf(alerts.goals_no_checkins) = {}
        /\ Len(alerts.goals_no_checkins) + Len(alerts.no_goals) = Len(alerts.no_checkins)
        /\ LET critical == alerts.alerts_and_warnings.critical_issues
               moderate == alerts.alerts_and_warnings.moderate_issues
           IN  (AlertedUsers(critical, "NO_GOALS") \cup AlertedUsers(moderate, "GOALS_NO_CHECKINS"))
                   \subseteq AlertedUsers(critical, "NO_CHECKINS")

\* A run in which one user has no goal, one has a goal and no named
\* checkin, and one has a named checkin
C30_Witness ==
    /\ alerts # <<>>
    /\ IdsOf(alerts.no_goals) = {"u3"}
    /\ IdsOf(alerts.goals_no_checkins) = {"u2"}
    /\ IdsOf(alerts.no_checkins) = {"u2", "u3"}
    /\ \E i \in 1..Len(final_df) : GoalUserId(final_df[i]) = "u1" /\ HasCheckinName(final_df[i])
    /\ Len(alerts.alerts_and_warnings.critical_issues) = 3

=============================================================================
